---------------------------- MODULE Spec2Model ----------------------------
(***************************************************************************)
(* Model of the Solana wallet tracker: the webhook payload normalizer and  *)
(* the wallet-involvement matcher of TransactionProcessor, the token       *)
(* metadata cache, the formatter and the delivery retry of                 *)
(* DiscordNotifier, and the webhook route and the shutdown of              *)
(* WalletTrackerServer.                                                    *)
(*                                                                         *)
(* JSON values are modelled by records of one shape.  An absent or falsy   *)
(* string field is "", an absent array field is << >>, an absent object    *)
(* field has present = FALSE.  String fields hold strings and number       *)
(* fields hold integers.  Fields of the canonical transaction that no      *)
(* modelled control flow reads (slot, fee, instructions, transactionError) *)
(* are left out; its timestamp, which only the embed construction reads,   *)
(* is carried beside it where a notification is built.                     *)
(***************************************************************************)
EXTENDS Integers, Sequences, FiniteSets, TLC

VARIABLES
    webhookData,      \* normalizer: the webhook body handed to extractTransactions
    transactions,     \* normalizer: the list extractTransactions returned
    stage,            \* normalizer: "received" | "extracted" | "threw"
    transaction,      \* matcher: the canonical transaction under test
    trackedAddresses, \* matcher: the active tracked addresses handed in
    involvedWallets,  \* matcher: the list findInvolvedWallets returned
    matched,          \* matcher: whether findInvolvedWallets has run
    wallets,          \* server: the wallet list the wallets file holds
    tokenCache,       \* server: DiscordNotifier.tokenCache, mint -> metadata
    requests,         \* server: each webhook request's position and locals
    lookupCount,      \* history: getAsset requests sent, per mint
    cacheHits,        \* history: getTokenMetadata calls served from the cache, per mint
    matchedTx,        \* history: <<request, tx>> on which findInvolvedWallets ran
    notifierCalls,    \* history: <<request, tx, address>> of sendTransactionNotification calls
    posted,           \* history: <<request, tx, address>> posted to the delivery endpoint
    failedPairs,      \* history: <<request, tx, address>> whose delivery threw after the retries
    caught,           \* history: <<request, tx>> that ran the catch of handleSingleTransaction
    postFailures,     \* environment: failed posts so far
    delivery,         \* notifier: the locals of one handleSingleTransaction run
    events,           \* notifier: the posts, delays and failed lookups of that run, in order
    truncation,       \* formatter: an address and what truncateAddress returned for it
    analysis,         \* formatter: a transaction, an address and what analyzeTransaction returned
    server,           \* shutdown: the HTTP server and the process: listening, closing, exited
    sockets,          \* shutdown: each connection's state and the requests it has carried
    inFlightAtSignal, \* history: <<connection, request>> being processed when a signal came
    answered,         \* history: <<connection, request>> whose response has been sent
    storage,          \* store: whether the wallets file is readable, PERSISTENT_WALLETS, failed writes
    managerCalls,     \* store: each wallet manager call's position and locals
    removed           \* history: addresses removed with no addWallet call for them since

nvars == <<webhookData, transactions, stage>>
mvars == <<transaction, trackedAddresses, involvedWallets, matched>>
svars == <<wallets, tokenCache, requests, lookupCount, cacheHits, matchedTx,
           notifierCalls, posted, failedPairs, caught, postFailures>>
rvars == <<requests, lookupCount, cacheHits, matchedTx, notifierCalls, posted,
           failedPairs, caught, postFailures>>
dvars == <<delivery, events>>
tvars == <<truncation>>
avars == <<analysis>>
hvars == <<server, sockets, inFlightAtSignal, answered>>
wvars == <<storage, managerCalls, removed>>
ovars == <<dvars, tvars, avars, hvars, wvars>>
vars == <<nvars, mvars, svars, ovars>>

-----------------------------------------------------------------------------
(* Bounds of the enumerated inputs.                                        *)

MaxItems == 3       \* longest webhook array
MaxAccounts == 2    \* longest accountKeys / preBalances / postBalances list
MaxTransfers == 1   \* longest transfer / delta list of a matcher input
MaxReqs == 2        \* webhook requests received
MaxPostFailures == 3 \* posts the delivery endpoint fails in one run

MaxCalls == 3       \* wallet manager calls made
MaxWriteFailures == 1 \* writes of the wallets file that fail

(* DiscordNotifier.maxRetries.                                             *)
maxRetries == 3

(* The fee tolerance of extractNativeTransfers.                            *)
FeeTolerance == 1000

(* accountKeys[i] of an index past the end of the list.                    *)
Undefined == "undefined"

Range(s) == {s[i] : i \in 1..Len(s)}

SeqsUpTo(S, n) == UNION {[1..k -> S] : k \in 0..n}

Abs(n) == IF n < 0 THEN -n ELSE n

-----------------------------------------------------------------------------
(* The normalizer: src/unnamed/part_000, TransactionProcessor.             *)

NoTransaction == [present |-> FALSE, signatures |-> << >>, accountKeys |-> << >>]

NoMeta ==
    [present |-> FALSE, preBalances |-> << >>, postBalances |-> << >>,
     preTokenBalances |-> << >>, postTokenBalances |-> << >>]

(* An object with no field set; the other items are EXCEPT-updates of it.  *)
EmptyObject ==
    [kind |-> "obj", type |-> "", signature |-> "", feePayer |-> "",
     nativeTransfers |-> << >>, tokenTransfers |-> << >>, accountData |-> << >>,
     source |-> "", description |-> "",
     transaction |-> NoTransaction, meta |-> NoMeta]

NullItem == [EmptyObject EXCEPT !.kind = "null"]

PrimitiveItem == [EmptyObject EXCEPT !.kind = "prim"]

(* A property read on null throws a TypeError; on a primitive it is        *)
(* undefined.                                                              *)
ReadThrows(data) == data.kind = "null"

(* type.replace(/_/g, ' ').replace(/\b\w/g, upper): the first letter of    *)
(* each word is upper-cased, the other letters are kept.                   *)
TitleCase(type) ==
    CASE type = "TRANSFER" -> "TRANSFER"
      [] type = "TOKEN_MINT" -> "TOKEN MINT"
      [] type = "swap_event" -> "Swap Event"
      [] OTHER -> type

generateDescription(data) ==
    IF Len(data.nativeTransfers) > 0 THEN "SOL Transfer"
    ELSE IF Len(data.tokenTransfers) > 0 THEN "Token Transfer"
    ELSE IF data.type # "" THEN TitleCase(data.type)
    ELSE "Solana Transaction"

Key(accountKeys, i) == IF i \in 1..Len(accountKeys) THEN accountKeys[i] ELSE Undefined

(* postBalances[i] - preBalances[i]; NaN when an operand is undefined.     *)
IsNumber(pre, post, i) == i \in 1..Len(pre) /\ i \in 1..Len(post)

Difference(pre, post, i) == post[i] - pre[i]

(* An inner loop that keeps the last matching j.                           *)
FirstMatchLast(pre, post, i) ==
    LET ok(j) == /\ j # i
                 /\ IsNumber(pre, post, j)
                 /\ Abs(Difference(pre, post, i) + Difference(pre, post, j)) < FeeTolerance
        js == {j \in 1..Len(pre) : ok(j)}
    IN IF js = {} THEN 0 ELSE CHOOSE j \in js : \A k \in js : j >= k

(* The inner loop over j: the lowest j # i whose delta cancels i's within  *)
(* the fee tolerance, or 0 when the loop ends without a push.              *)
FirstMatch(pre, post, i) ==
    LET ok(j) == /\ j # i
                 /\ IsNumber(pre, post, j)
                 /\ Abs(Difference(pre, post, i) + Difference(pre, post, j)) < FeeTolerance
        js == {j \in 1..Len(pre) : ok(j)}
    IN IF js = {} THEN 0 ELSE CHOOSE j \in js : \A k \in js : j <= k

RECURSIVE NativeLoop(_, _, _, _, _)
NativeLoop(pre, post, accountKeys, i, transfers) ==
    IF i > Len(pre) THEN transfers
    ELSE IF IsNumber(pre, post, i) /\ Abs(Difference(pre, post, i)) > 0
                /\ FirstMatch(pre, post, i) # 0
         THEN LET j == FirstMatch(pre, post, i)
                  d == Difference(pre, post, i)
              IN NativeLoop(pre, post, accountKeys, i + 1,
                     Append(transfers,
                         [fromUserAccount |-> Key(accountKeys, IF d < 0 THEN i ELSE j),
                          toUserAccount |-> Key(accountKeys, IF d < 0 THEN j ELSE i),
                          amount |-> Abs(d)]))
         ELSE NativeLoop(pre, post, accountKeys, i + 1, transfers)

extractNativeTransfers(data) ==
    NativeLoop(data.meta.preBalances, data.meta.postBalances,
               data.transaction.accountKeys, 1, << >>)

(* A token balance entry is [accountIndex, owner, mint, amount]; amount is *)
(* the integer parseInt reads from uiTokenAmount.amount.                   *)
FindPost(postTokenBalances, accountIndex) ==
    LET ks == {k \in 1..Len(postTokenBalances) :
                  postTokenBalances[k].accountIndex = accountIndex}
    IN IF ks = {} THEN 0 ELSE CHOOSE k \in ks : \A l \in ks : k <= l

RECURSIVE TokenLoop(_, _, _, _)
TokenLoop(preTok, postTok, p, transfers) ==
    IF p > Len(preTok) THEN transfers
    ELSE LET k == FindPost(postTok, preTok[p].accountIndex)
         IN IF k # 0 /\ postTok[k].amount - preTok[p].amount # 0
            THEN TokenLoop(preTok, postTok, p + 1,
                     Append(transfers,
                         [fromUserAccount |-> preTok[p].owner,
                          toUserAccount |-> postTok[k].owner,
                          tokenAmount |-> Abs(postTok[k].amount - preTok[p].amount),
                          mint |-> preTok[p].mint]))
            ELSE TokenLoop(preTok, postTok, p + 1, transfers)

extractTokenTransfers(data) ==
    TokenLoop(data.meta.preTokenBalances, data.meta.postTokenBalances, 1, << >>)

(* preBalances[i] || 0: an undefined balance counts as 0.                  *)
OrZero(balances, i) == IF i \in 1..Len(balances) THEN balances[i] ELSE 0

RECURSIVE AccountLoop(_, _, _, _, _)
AccountLoop(pre, post, accountKeys, i, accountData) ==
    IF i > Len(accountKeys) THEN accountData
    ELSE LET nativeBalanceChange == OrZero(post, i) - OrZero(pre, i)
         IN IF nativeBalanceChange # 0
            THEN AccountLoop(pre, post, accountKeys, i + 1,
                     Append(accountData,
                         [account |-> accountKeys[i],
                          nativeBalanceChange |-> nativeBalanceChange]))
            ELSE AccountLoop(pre, post, accountKeys, i + 1, accountData)

extractAccountData(data) ==
    AccountLoop(data.meta.preBalances, data.meta.postBalances,
                data.transaction.accountKeys, 1, << >>)

(* transaction.signatures?.[0] || ''                                       *)
FirstOrEmpty(list) == IF Len(list) > 0 THEN list[1] ELSE ""

parseRawTransaction(data) ==
    [signature |-> FirstOrEmpty(data.transaction.signatures),
     feePayer |-> FirstOrEmpty(data.transaction.accountKeys),
     nativeTransfers |-> extractNativeTransfers(data),
     tokenTransfers |-> extractTokenTransfers(data),
     accountData |-> extractAccountData(data),
     type |-> "UNKNOWN",
     source |-> "raw",
     description |-> "Raw transaction data"]

IsEnhanced(data) == data.kind = "obj" /\ data.type # "" /\ data.signature # ""

IsRaw(data) == data.kind = "obj" /\ data.transaction.present /\ data.meta.present

(* The canonical record of the Enhanced branch.                            *)
EnhancedRecord(data) ==
    [signature |-> data.signature,
     feePayer |-> data.feePayer,
     nativeTransfers |-> data.nativeTransfers,
     tokenTransfers |-> data.tokenTransfers,
     accountData |-> data.accountData,
     type |-> data.type,
     source |-> IF data.source # "" THEN data.source ELSE "helius",
     description |-> IF data.description # "" THEN data.description
                     ELSE generateDescription(data)]

NoRecord ==
    [signature |-> "", feePayer |-> "", nativeTransfers |-> << >>,
     tokenTransfers |-> << >>, accountData |-> << >>, type |-> "",
     source |-> "", description |-> ""]

(* What a call returns: a record ("ok"), null ("null"), or an exception    *)
(* leaving the function ("throw").                                         *)
Returned(tx) == [status |-> "ok", tx |-> tx]
ReturnedNull == [status |-> "null", tx |-> NoRecord]
Threw == [status |-> "throw", tx |-> NoRecord]

(* parseTransactionData without its try/catch: a variant used to test that *)
(* the per-element isolation rests on it.                                  *)
parseTransactionDataUncaught(data) ==
    IF ReadThrows(data) THEN Threw
    ELSE IF IsEnhanced(data) THEN Returned(EnhancedRecord(data))
    ELSE IF IsRaw(data) THEN Returned(parseRawTransaction(data))
    ELSE ReturnedNull

parseTransactionData(data) ==
    IF ReadThrows(data) THEN ReturnedNull
    ELSE IF IsEnhanced(data) THEN Returned(EnhancedRecord(data))
    ELSE IF IsRaw(data) THEN Returned(parseRawTransaction(data))
    ELSE ReturnedNull

(* The loop over the array; an exception leaving parseTransactionData ends *)
(* it in the catch of extractTransactions, which returns what was pushed.  *)
RECURSIVE ExtractLoop(_, _, _)
ExtractLoop(items, k, acc) ==
    IF k > Len(items) THEN acc
    ELSE LET r == parseTransactionData(items[k])
         IN IF r.status = "throw" THEN acc
            ELSE IF r.status = "ok" THEN ExtractLoop(items, k + 1, Append(acc, r.tx))
            ELSE ExtractLoop(items, k + 1, acc)

(* A webhook body is [isArray, items]: the elements of an array, or the    *)
(* one value of a non-array body.                                          *)
extractTransactions(body) ==
    IF body.isArray THEN ExtractLoop(body.items, 1, << >>)
    ELSE LET data == body.items[1]
         IN IF ReadThrows(data) THEN << >>
            ELSE IF data.kind = "obj" /\ (data.transaction.present \/ data.meta.present)
                 THEN ExtractLoop(body.items, 1, << >>)
                 ELSE << >>

(* Whether an exception leaves the try block of extractTransactions: one   *)
(* that left parseTransactionData, or the TypeError of reading             *)
(* webhookData.transaction on a null body.                                 *)
TryThrows(body) ==
    IF body.isArray
    THEN \E k \in 1..Len(body.items) : parseTransactionData(body.items[k]).status = "throw"
    ELSE \/ ReadThrows(body.items[1])
         \/ parseTransactionData(body.items[1]).status = "throw"

(* No catch: what the try block throws leaves the function.                *)
extractTransactionsNoCatch(thrown) == thrown

(* The catch of extractTransactions logs the error; whether an exception   *)
(* then leaves the function.                                               *)
extractTransactionsCatch(thrown) == FALSE

extractTransactionsThrows(body) == extractTransactionsCatch(TryThrows(body))

-----------------------------------------------------------------------------
(* The webhook bodies the normalizer is run on.                            *)

NativeTransfer(from, to, amount) ==
    [fromUserAccount |-> from, toUserAccount |-> to, amount |-> amount]

TokenTransfer(from, to, tokenAmount, mint) ==
    [fromUserAccount |-> from, toUserAccount |-> to,
     tokenAmount |-> tokenAmount, mint |-> mint]

AccountData(account, change) == [account |-> account, nativeBalanceChange |-> change]

TokenBalance(accountIndex, owner, mint, amount) ==
    [accountIndex |-> accountIndex, owner |-> owner, mint |-> mint, amount |-> amount]

RawObject(signatures, accountKeys, pre, post, preTok, postTok) ==
    [EmptyObject EXCEPT
        !.transaction = [present |-> TRUE, signatures |-> signatures,
                         accountKeys |-> accountKeys],
        !.meta = [present |-> TRUE, preBalances |-> pre, postBalances |-> post,
                  preTokenBalances |-> preTok, postTokenBalances |-> postTok]]

EnhancedTransfer ==
    [EmptyObject EXCEPT !.type = "TRANSFER", !.signature = "sigE1", !.feePayer = "A",
                        !.nativeTransfers = <<NativeTransfer("A", "B", 5000)>>]

EnhancedMint == [EmptyObject EXCEPT !.type = "TOKEN_MINT", !.signature = "sigE2"]

RawSigned ==
    RawObject(<<"sigR1">>, <<"A", "B">>, <<7000, 0>>, <<1400, 5000>>,
              <<TokenBalance(1, "A", "M", 100)>>, <<TokenBalance(1, "B", "M", 40)>>)

RawUnsigned == RawObject(<< >>, <<"A">>, <<5000>>, <<0>>, << >>, << >>)

(* Objects of neither shape. *)
TypeOnly == [EmptyObject EXCEPT !.type = "TRANSFER"]

TransactionOnly ==
    [EmptyObject EXCEPT !.transaction = [present |-> TRUE, signatures |-> <<"sigR2">>,
                                         accountKeys |-> <<"A">>]]

ArrayItems ==
    {EnhancedTransfer, EnhancedMint, RawSigned, RawUnsigned,
     NullItem, PrimitiveItem, EmptyObject, TypeOnly, TransactionOnly}

ArrayBody(items) == [isArray |-> TRUE, items |-> items]

SingleBody(data) == [isArray |-> FALSE, items |-> <<data>>]

(* The raw-shape payload of the balance inference scenario.                *)
ScenarioRaw ==
    RawObject(<<"sigS">>, <<"A", "B">>, <<1000000000, 500000000>>,
              <<999995000, 500005000>>, << >>, << >>)

(* An Enhanced-shape payload whose accountData lists every account of the  *)
(* transaction, the untouched one with a change of 0.                      *)
EnhancedZeroDelta ==
    [EmptyObject EXCEPT !.type = "TRANSFER", !.signature = "sigE3", !.feePayer = "A",
                        !.nativeTransfers = <<NativeTransfer("A", "B", 5000)>>,
                        !.accountData = <<AccountData("A", -5000), AccountData("B", 5000),
                                          AccountData("U", 0)>>]

BalanceValues == {0, 5000, 5600}

AccountNames == {"A", "B"}

RawObjects(maxAccounts) ==
    {RawObject(sigs, keys, pre, post, << >>, << >>) :
        sigs \in {<< >>, <<"sigR">>},
        keys \in SeqsUpTo(AccountNames, maxAccounts),
        pre \in SeqsUpTo(BalanceValues, maxAccounts),
        post \in SeqsUpTo(BalanceValues, maxAccounts)}

WebhookBodies(maxItems, maxAccounts) ==
    {ArrayBody(items) : items \in SeqsUpTo(ArrayItems, maxItems)}
        \cup {SingleBody(data) :
                  data \in ArrayItems \cup RawObjects(maxAccounts) \cup {ScenarioRaw}}
        \cup {ArrayBody(<<ScenarioRaw>>), ArrayBody(<<EnhancedZeroDelta>>)}

-----------------------------------------------------------------------------
(* The normalizer run on one webhook body.                                 *)

NormalizerInit ==
    /\ webhookData \in WebhookBodies(MaxItems, MaxAccounts)
    /\ transactions = << >>
    /\ stage = "received"

(* The normalizer run on one Raw-shape payload with a balance pair for     *)
(* each of its accounts.                                                   *)
MaxBalances == 3    \* longest accountKeys / preBalances / postBalances list paired

KeyNames == <<"A", "B", "C", "D", "E">>

BalancedRawObjects(maxBalances) ==
    UNION {{RawObject(<<"sigR">>, SubSeq(KeyNames, 1, n), pre, post, << >>, << >>) :
               pre \in [1..n -> BalanceValues], post \in [1..n -> BalanceValues]} :
           n \in 0..maxBalances}

NativeInit ==
    /\ webhookData \in {SingleBody(data) : data \in BalancedRawObjects(MaxBalances)}
    /\ transactions = << >>
    /\ stage = "received"

NormalizerOff ==
    /\ webhookData = SingleBody(NullItem)
    /\ transactions = << >>
    /\ stage = "off"

ExtractTransactions ==
    /\ stage = "received"
    /\ transactions' = extractTransactions(webhookData)
    /\ stage' = IF extractTransactionsThrows(webhookData) THEN "threw" ELSE "extracted"
    /\ UNCHANGED <<webhookData, mvars, svars, ovars>>

-----------------------------------------------------------------------------
(* The involvement matcher: TransactionProcessor.findInvolvedWallets.      *)

Includes(list, x) == \E k \in 1..Len(list) : list[k] = x

(* Set.add on a Set<string>, which keeps insertion order.                  *)
SetAdd(set, x) == IF Includes(set, x) THEN set ELSE Append(set, x)

AddIfTracked(set, tracked, x) == IF Includes(tracked, x) THEN SetAdd(set, x) ELSE set

RECURSIVE TransferLoop(_, _, _, _)
TransferLoop(transfers, k, tracked, set) ==
    IF k > Len(transfers) THEN set
    ELSE TransferLoop(transfers, k + 1, tracked,
             AddIfTracked(AddIfTracked(set, tracked, transfers[k].fromUserAccount),
                          tracked, transfers[k].toUserAccount))

(* A loop that looks at the sender of each transfer only.                  *)
RECURSIVE SenderLoop(_, _, _, _)
SenderLoop(transfers, k, tracked, set) ==
    IF k > Len(transfers) THEN set
    ELSE SenderLoop(transfers, k + 1, tracked,
             AddIfTracked(set, tracked, transfers[k].fromUserAccount))

RECURSIVE AccountDataLoop(_, _, _, _)
AccountDataLoop(accountData, k, tracked, set) ==
    IF k > Len(accountData) THEN set
    ELSE AccountDataLoop(accountData, k + 1, tracked,
             AddIfTracked(set, tracked, accountData[k].account))

findInvolvedWalletsSendersOnly(tx, tracked) ==
    LET feePayer == AddIfTracked(<< >>, tracked, tx.feePayer)
        native == SenderLoop(tx.nativeTransfers, 1, tracked, feePayer)
        token == SenderLoop(tx.tokenTransfers, 1, tracked, native)
    IN AccountDataLoop(tx.accountData, 1, tracked, token)

(* A matcher that takes the fee payer without looking it up.               *)
findInvolvedWalletsAlwaysPayer(tx, tracked) ==
    LET feePayer == <<tx.feePayer>>
        native == TransferLoop(tx.nativeTransfers, 1, tracked, feePayer)
        token == TransferLoop(tx.tokenTransfers, 1, tracked, native)
    IN AccountDataLoop(tx.accountData, 1, tracked, token)

findInvolvedWallets(tx, tracked) ==
    LET feePayer == AddIfTracked(<< >>, tracked, tx.feePayer)
        native == TransferLoop(tx.nativeTransfers, 1, tracked, feePayer)
        token == TransferLoop(tx.tokenTransfers, 1, tracked, native)
    IN AccountDataLoop(tx.accountData, 1, tracked, token)

-----------------------------------------------------------------------------
(* The canonical transactions and tracked lists the matcher is run on.     *)

CanonicalTransaction(signature, feePayer, native, token, accountData) ==
    [signature |-> signature, feePayer |-> feePayer, nativeTransfers |-> native,
     tokenTransfers |-> token, accountData |-> accountData,
     type |-> "TRANSFER", source |-> "helius", description |-> "SOL Transfer"]

(* "a" and "A" differ in case only; "U" is never tracked.                  *)
TrackableNames == {"A", "B", "a"}

NativeChoices ==
    {NativeTransfer("A", "B", 5000), NativeTransfer("a", "U", 5000),
     NativeTransfer("U", "A", 7000), NativeTransfer("B", "a", 7000)}

TokenChoices == {TokenTransfer("B", "U", 100, "M"), TokenTransfer("U", "a", 100, "M")}

AccountDataChoices ==
    {AccountData("A", -5000), AccountData("B", 5000), AccountData("U", 7000)}

MatcherTransactions(maxTransfers) ==
    {CanonicalTransaction(sig, payer, native, token, accountData) :
        sig \in {"", "sig1"},
        payer \in {"", "A", "a", "U"},
        native \in SeqsUpTo(NativeChoices, maxTransfers),
        token \in SeqsUpTo(TokenChoices, maxTransfers),
        accountData \in SeqsUpTo(AccountDataChoices, maxTransfers)}

RECURSIVE ListOf(_)
ListOf(S) ==
    IF S = {} THEN << >>
    ELSE LET x == CHOOSE y \in S : TRUE IN <<x>> \o ListOf(S \ {x})

TrackedLists == {ListOf(S) : S \in SUBSET TrackableNames}

MatcherInit ==
    /\ transaction \in MatcherTransactions(MaxTransfers)
    /\ trackedAddresses \in TrackedLists
    /\ involvedWallets = << >>
    /\ matched = FALSE

MatcherOff ==
    /\ transaction = NoRecord
    /\ trackedAddresses = << >>
    /\ involvedWallets = << >>
    /\ matched = FALSE

FindInvolvedWallets ==
    /\ ~matched
    /\ involvedWallets' = findInvolvedWallets(transaction, trackedAddresses)
    /\ matched' = TRUE
    /\ UNCHANGED <<transaction, trackedAddresses, nvars, svars, ovars>>

-----------------------------------------------------------------------------
(* The wallet store: src/src/walletManager.ts.  Addresses are short names  *)
(* standing for base58 addresses.                                          *)

TrackedWallet(address, label, isActive) ==
    [address |-> address, label |-> label, isActive |-> isActive]

InitialWallets ==
    <<TrackedWallet("A", "Alpha", TRUE), TrackedWallet("B", "", TRUE),
      TrackedWallet("C", "Gamma", FALSE)>>

getActiveWallets(ws) == SelectSeq(ws, LAMBDA w : w.isActive)

getActiveWalletAddresses(ws) ==
    [k \in 1..Len(getActiveWallets(ws)) |-> getActiveWallets(ws)[k].address]

-----------------------------------------------------------------------------
(* The token metadata cache: DiscordNotifier.getTokenMetadata.             *)

Mints == {"M", "N"}

(* What the getAsset request answers for a mint when it succeeds.          *)
Asset(mint) ==
    IF mint = "M" THEN [symbol |-> "MTK", decimals |-> 6]
    ELSE [symbol |-> "NTK", decimals |-> 0]

(* The record built from the answer: symbol || 'UNKNOWN', decimals || 9.   *)
(* Its name, price and marketCap, which only the embed text shows, are     *)
(* left out.                                                               *)
Metadata(asset) ==
    [symbol |-> IF asset.symbol # "" THEN asset.symbol ELSE "UNKNOWN",
     decimals |-> IF asset.decimals # 0 THEN asset.decimals ELSE 9]

Fallback == [symbol |-> "UNKNOWN", decimals |-> 9]

(* A cache check that always misses.                                       *)
CacheHasNever(cache, mint) == FALSE

(* this.tokenCache.has(mintAddress)                                        *)
CacheHas(cache, mint) == mint \in DOMAIN cache

(* A set that stores nothing.                                              *)
CacheSetDropped(cache, mint, metadata) == cache

(* this.tokenCache.set(mintAddress, metadata)                              *)
CacheSet(cache, mint, metadata) ==
    [m \in DOMAIN cache \cup {mint} |-> IF m = mint THEN metadata ELSE cache[m]]

EmptyCache == [m \in {} |-> Fallback]

-----------------------------------------------------------------------------
(* One webhook request: the route of src/src/server.ts running             *)
(* processTransaction.  A request is at an await between two actions; the  *)
(* code between two awaits on pending I/O runs in one action.              *)

Reqs == 1..MaxReqs

IdleRequest ==
    [pc |-> "idle", body |-> SingleBody(NullItem), transactions |-> << >>,
     txIdx |-> 0, involved |-> << >>, wIdx |-> 0, tokIdx |-> 0, attempt |-> 0,
     status |-> 0]

(* The bodies the server receives. *)
BatchTransfer ==
    [EmptyObject EXCEPT !.type = "TRANSFER", !.signature = "sig1", !.feePayer = "A",
                        !.nativeTransfers = <<NativeTransfer("A", "B", 5000)>>]

BatchSwap ==
    [EmptyObject EXCEPT !.type = "SWAP", !.signature = "sig2", !.feePayer = "U",
                        !.nativeTransfers = <<NativeTransfer("A", "U", 2000000000)>>,
                        !.tokenTransfers = <<TokenTransfer("U", "A", 100, "M"),
                                             TokenTransfer("U", "A", 50, "M")>>]

BatchUntracked ==
    [EmptyObject EXCEPT !.type = "TRANSFER", !.signature = "sig3", !.feePayer = "C",
                        !.nativeTransfers = <<NativeTransfer("U", "V", 5000)>>,
                        !.accountData = <<AccountData("V", 5000)>>]

RawUnsignedToken ==
    RawObject(<< >>, <<"B">>, <<5000>>, <<5000>>,
              <<TokenBalance(1, "B", "N", 100)>>, <<TokenBalance(1, "B", "N", 40)>>)

ServerBodies ==
    {ArrayBody(<<BatchTransfer, BatchSwap, BatchUntracked>>),
     SingleBody(RawUnsignedToken),
     SingleBody(BatchTransfer)}

(* A loop that answers after the first transaction.                        *)
NextTxFirstOnly(rq) ==
    IF rq.txIdx = 0 /\ Len(rq.transactions) > 0
    THEN [rq EXCEPT !.pc = "loadTracked", !.txIdx = 1]
    ELSE [rq EXCEPT !.pc = "done", !.status = 200, !.txIdx = @ + 1, !.involved = << >>,
                    !.wIdx = 0, !.tokIdx = 0, !.attempt = 0]

(* The for loop of processTransaction: the next handleSingleTransaction,   *)
(* which first awaits the wallet file, or, after the last one, the         *)
(* route's res.status(200).                                                *)
NextTx(rq) ==
    IF rq.txIdx < Len(rq.transactions)
    THEN [rq EXCEPT !.pc = "loadTracked", !.txIdx = @ + 1, !.involved = << >>,
                    !.wIdx = 0, !.tokIdx = 0, !.attempt = 0]
    ELSE [rq EXCEPT !.pc = "done", !.status = 200, !.txIdx = @ + 1, !.involved = << >>,
                    !.wIdx = 0, !.tokIdx = 0, !.attempt = 0]

(* A catch that rethrows: processTransaction rethrows too, the route       *)
(* answers 500.                                                            *)
handleSingleTransactionRethrow(rq) ==
    [rq EXCEPT !.pc = "done", !.status = 500, !.involved = << >>,
               !.wIdx = 0, !.tokIdx = 0, !.attempt = 0]

(* The catch of handleSingleTransaction: the error is logged, the call     *)
(* returns, the loop of processTransaction goes on.                        *)
handleSingleTransactionCatch(rq) == NextTx(rq)

Involves(transfer, walletAddress) ==
    transfer.fromUserAccount = walletAddress \/ transfer.toUserAccount = walletAddress

(* analyzeTransaction from token transfer k on: the index of the first     *)
(* transfer touching the wallet whose mint getTokenMetadata does not find  *)
(* in the cache, or 0 when the loop ends.                                  *)
RECURSIVE NextMiss(_, _, _, _)
NextMiss(tokenTransfers, walletAddress, k, cache) ==
    IF k > Len(tokenTransfers) THEN 0
    ELSE IF Involves(tokenTransfers[k], walletAddress)
              /\ ~CacheHas(cache, tokenTransfers[k].mint)
         THEN k
         ELSE NextMiss(tokenTransfers, walletAddress, k + 1, cache)

(* sendTransactionNotification from the token loop of analyzeTransaction   *)
(* at transfer k, up to its next await on the network: the getAsset        *)
(* request of a cache miss, or the first post of sendWithRetry.            *)
Analyze(r, rq, k, cache) ==
    LET tx == rq.transactions[rq.txIdx]
        walletAddress == rq.involved[rq.wIdx]
        n == NextMiss(tx.tokenTransfers, walletAddress, k, cache)
        last == IF n = 0 THEN Len(tx.tokenTransfers) ELSE n - 1
        hits(m) == Cardinality({j \in k..last :
                        /\ Involves(tx.tokenTransfers[j], walletAddress)
                        /\ tx.tokenTransfers[j].mint = m})
    IN /\ cacheHits' = [m \in Mints |-> cacheHits[m] + hits(m)]
       /\ IF n = 0
          THEN /\ requests' = [requests EXCEPT ![r] =
                                  [rq EXCEPT !.pc = "post", !.tokIdx = 0, !.attempt = 1]]
               /\ posted' = posted \cup {<<r, rq.txIdx, walletAddress>>}
               /\ UNCHANGED lookupCount
          ELSE /\ requests' = [requests EXCEPT ![r] =
                                  [rq EXCEPT !.pc = "lookup", !.tokIdx = n]]
               /\ lookupCount' = [lookupCount EXCEPT ![tx.tokenTransfers[n].mint] = @ + 1]
               /\ UNCHANGED posted

ServerInit ==
    /\ wallets = InitialWallets
    /\ tokenCache = EmptyCache
    /\ requests = [r \in Reqs |-> IdleRequest]
    /\ lookupCount = [m \in Mints |-> 0]
    /\ cacheHits = [m \in Mints |-> 0]
    /\ matchedTx = {}
    /\ notifierCalls = {}
    /\ posted = {}
    /\ failedPairs = {}
    /\ caught = {}
    /\ postFailures = 0

(* POST webhookPath: extractTransactions, then the first transaction.      *)
Receive(r) ==
    /\ requests[r].pc = "idle"
    /\ \E body \in ServerBodies :
          requests' = [requests EXCEPT ![r] =
              NextTx([IdleRequest EXCEPT !.body = body,
                                         !.transactions = extractTransactions(body)])]
    /\ UNCHANGED <<wallets, tokenCache, lookupCount, cacheHits, matchedTx,
                   notifierCalls, posted, failedPairs, caught, postFailures,
                   nvars, mvars, ovars>>

(* handleSingleTransaction once getActiveWalletAddresses has answered.     *)
LoadTracked(r) ==
    LET rq == requests[r]
        tx == rq.transactions[rq.txIdx]
        tracked == getActiveWalletAddresses(wallets)
        involved == findInvolvedWallets(tx, tracked)
    IN /\ rq.pc = "loadTracked"
       /\ matchedTx' = matchedTx \cup {<<r, rq.txIdx>>}
       /\ IF Len(involved) = 0
          THEN /\ requests' = [requests EXCEPT ![r] = NextTx(rq)]
               /\ UNCHANGED notifierCalls
          ELSE /\ requests' = [requests EXCEPT ![r] =
                                  [rq EXCEPT !.pc = "getWallet", !.involved = involved,
                                             !.wIdx = 1]]
               /\ notifierCalls' = notifierCalls \cup {<<r, rq.txIdx, involved[1]>>}
       /\ UNCHANGED <<wallets, tokenCache, lookupCount, cacheHits, posted,
                      failedPairs, caught, postFailures, nvars, mvars, ovars>>

(* sendTransactionNotification once getWallet has answered.                *)
GetWallet(r) ==
    /\ requests[r].pc = "getWallet"
    /\ Analyze(r, requests[r], 1, tokenCache)
    /\ UNCHANGED <<wallets, tokenCache, matchedTx, notifierCalls, failedPairs,
                   caught, postFailures, nvars, mvars, ovars>>

(* getTokenMetadata once the getAsset request has ended: answered, it      *)
(* goes on to the price request; failed, it caches the fallback.           *)
LookupDone(r) ==
    LET rq == requests[r]
        mint == rq.transactions[rq.txIdx].tokenTransfers[rq.tokIdx].mint
    IN /\ rq.pc = "lookup"
       /\ \/ /\ requests' = [requests EXCEPT ![r] = [rq EXCEPT !.pc = "price"]]
             /\ UNCHANGED <<tokenCache, lookupCount, cacheHits, posted>>
          \/ /\ tokenCache' = CacheSet(tokenCache, mint, Fallback)
             /\ Analyze(r, rq, rq.tokIdx + 1, tokenCache')
       /\ UNCHANGED <<wallets, matchedTx, notifierCalls, failedPairs, caught,
                      postFailures, nvars, mvars, ovars>>

(* getTokenMetadata once the price request has ended, either way.          *)
PriceDone(r) ==
    LET rq == requests[r]
        mint == rq.transactions[rq.txIdx].tokenTransfers[rq.tokIdx].mint
    IN /\ rq.pc = "price"
       /\ tokenCache' = CacheSet(tokenCache, mint, Metadata(Asset(mint)))
       /\ Analyze(r, rq, rq.tokIdx + 1, tokenCache')
       /\ UNCHANGED <<wallets, matchedTx, notifierCalls, failedPairs, caught,
                      postFailures, nvars, mvars, ovars>>

(* sendWithRetry once its post has ended.                                  *)
PostDone(r) ==
    LET rq == requests[r]
        pair == <<r, rq.txIdx, rq.involved[rq.wIdx]>>
    IN /\ rq.pc = "post"
       /\ \/ /\ IF rq.wIdx < Len(rq.involved)
                THEN /\ requests' = [requests EXCEPT ![r] =
                            [rq EXCEPT !.pc = "getWallet", !.wIdx = @ + 1,
                                       !.attempt = 0]]
                     /\ notifierCalls' = notifierCalls \cup
                            {<<r, rq.txIdx, rq.involved[rq.wIdx + 1]>>}
                ELSE /\ requests' = [requests EXCEPT ![r] = NextTx(rq)]
                     /\ UNCHANGED notifierCalls
             /\ UNCHANGED <<failedPairs, caught, postFailures>>
          \/ /\ postFailures < MaxPostFailures
             /\ postFailures' = postFailures + 1
             /\ IF rq.attempt < maxRetries
                THEN /\ requests' = [requests EXCEPT ![r] = [rq EXCEPT !.pc = "delay"]]
                     /\ UNCHANGED <<failedPairs, caught>>
                ELSE /\ requests' = [requests EXCEPT ![r] =
                            handleSingleTransactionCatch(rq)]
                     /\ failedPairs' = failedPairs \cup {pair}
                     /\ caught' = caught \cup {<<r, rq.txIdx>>}
             /\ UNCHANGED notifierCalls
       /\ UNCHANGED <<wallets, tokenCache, lookupCount, cacheHits, matchedTx,
                      posted, nvars, mvars, ovars>>

(* sendWithRetry once its delay has passed: the next attempt's post.       *)
DelayDone(r) ==
    /\ requests[r].pc = "delay"
    /\ requests' = [requests EXCEPT ![r] =
                       [requests[r] EXCEPT !.pc = "post", !.attempt = @ + 1]]
    /\ UNCHANGED <<wallets, tokenCache, lookupCount, cacheHits, matchedTx,
                   notifierCalls, posted, failedPairs, caught, postFailures,
                   nvars, mvars, ovars>>

-----------------------------------------------------------------------------
(* The formatter: DiscordNotifier.analyzeTransaction and                   *)
(* createEnhancedTransactionEmbed.                                         *)
(*                                                                         *)
(* A number the code obtains by dividing an integer m by 10^e is the       *)
(* record Amount(m, e); a local that was never assigned is NoAmount.  The   *)
(* product of Amount(m, e) and 100 is Amount(m, e - 2).                    *)

Amount(m, e) == [defined |-> TRUE, m |-> m, e |-> e]

NoAmount == [defined |-> FALSE, m |-> 0, e |-> 0]

(* if (x): undefined and 0 are falsy.                                      *)
Truthy(amount) == amount.defined /\ amount.m # 0

(* The exponent of 1e9, lamports per SOL.                                  *)
SolDecimals == 9

(* The 0.000001 SOL of the alreadyProcessed test, in lamports.             *)
SameAmountTolerance == 1000

(* The address length up to which truncateAddress keeps the address, and   *)
(* the length of slice(0, 6) and of slice(-6).                             *)
KeptLength == 12

SliceLength == 6

(* An address kept only up to 11 characters.                               *)
truncateAddressBelow(address) ==
    IF Len(address) < KeptLength THEN address
    ELSE SubSeq(address, 1, SliceLength) \o "..."
             \o SubSeq(address, Len(address) - SliceLength + 1, Len(address))

truncateAddress(address) ==
    IF Len(address) <= KeptLength THEN address
    ELSE SubSeq(address, 1, SliceLength) \o "..."
             \o SubSeq(address, Len(address) - SliceLength + 1, Len(address))

(* nativeTransfers.find(...): the index of the first native transfer that  *)
(* goes to the wallet when it sent the token, or leaves the wallet when it *)
(* received the token; 0 when find returns undefined.                      *)
correspondingSOLTransfer(nativeTransfers, walletAddress, isUserSender, isUserReceiver) ==
    LET ks == {k \in 1..Len(nativeTransfers) :
                  \/ isUserSender /\ nativeTransfers[k].toUserAccount = walletAddress
                  \/ isUserReceiver /\ nativeTransfers[k].fromUserAccount = walletAddress}
    IN IF ks = {} THEN 0 ELSE CHOOSE k \in ks : \A j \in ks : k <= j

(* The entry the token loop of analyzeTransaction pushes for a transfer    *)
(* that touches the wallet, given what getTokenMetadata returned.          *)
EnhancedTokenTransfer(tx, transfer, walletAddress, tokenMetadata) ==
    LET isUserSender == transfer.fromUserAccount = walletAddress
        isUserReceiver == transfer.toUserAccount = walletAddress
        found == correspondingSOLTransfer(tx.nativeTransfers, walletAddress,
                                          isUserSender, isUserReceiver)
        solAmount == IF found = 0 THEN NoAmount
                     ELSE Amount(tx.nativeTransfers[found].amount, SolDecimals)
    IN [type |-> IF found = 0 THEN "TRANSFER"
                 ELSE IF isUserSender THEN "SELL" ELSE "BUY",
        tokenAddress |-> transfer.mint,
        tokenSymbol |-> tokenMetadata.symbol,
        tokenAmount |-> Amount(transfer.tokenAmount, tokenMetadata.decimals),
        solAmount |-> solAmount,
        usdAmount |-> IF Truthy(solAmount) THEN Amount(solAmount.m, SolDecimals - 2)
                      ELSE NoAmount,
        fromAddress |-> transfer.fromUserAccount,
        toAddress |-> transfer.toUserAccount,
        isUserSender |-> isUserSender]

(* The entry the native loop pushes.                                       *)
EnhancedNativeTransfer(transfer, walletAddress) ==
    [type |-> "TRANSFER",
     tokenAddress |-> "So11111111111111111111111111111111111111112",
     tokenSymbol |-> "SOL",
     tokenAmount |-> Amount(transfer.amount, SolDecimals),
     solAmount |-> Amount(transfer.amount, SolDecimals),
     usdAmount |-> Amount(transfer.amount, SolDecimals - 2),
     fromAddress |-> transfer.fromUserAccount,
     toAddress |-> transfer.toUserAccount,
     isUserSender |-> transfer.fromUserAccount = walletAddress]

(* enhancedTransfers.some(et => et.solAmount &&                            *)
(*     Math.abs(et.solAmount - transfer.amount / 1e9) < 0.000001)          *)
alreadyProcessed(enhancedTransfers, transfer) ==
    \E k \in 1..Len(enhancedTransfers) :
        /\ Truthy(enhancedTransfers[k].solAmount)
        /\ Abs(enhancedTransfers[k].solAmount.m - transfer.amount) < SameAmountTolerance

(* The native loop of analyzeTransaction from transfer k on.               *)
RECURSIVE NativeTransferLoop(_, _, _, _)
NativeTransferLoop(nativeTransfers, walletAddress, k, enhancedTransfers) ==
    IF k > Len(nativeTransfers) THEN enhancedTransfers
    ELSE IF Involves(nativeTransfers[k], walletAddress)
              /\ ~alreadyProcessed(enhancedTransfers, nativeTransfers[k])
         THEN NativeTransferLoop(nativeTransfers, walletAddress, k + 1,
                  Append(enhancedTransfers,
                         EnhancedNativeTransfer(nativeTransfers[k], walletAddress)))
         ELSE NativeTransferLoop(nativeTransfers, walletAddress, k + 1, enhancedTransfers)

(* The token loop of analyzeTransaction from transfer k on, up to its end  *)
(* or to the first getTokenMetadata call that misses the cache: await is   *)
(* the index of that transfer, or 0 at the end of the loop.                *)
RECURSIVE TokenTransferLoop(_, _, _, _, _)
TokenTransferLoop(tx, walletAddress, k, cache, enhancedTransfers) ==
    IF k > Len(tx.tokenTransfers)
    THEN [await |-> 0, enhancedTransfers |-> enhancedTransfers]
    ELSE IF ~Involves(tx.tokenTransfers[k], walletAddress)
         THEN TokenTransferLoop(tx, walletAddress, k + 1, cache, enhancedTransfers)
         ELSE IF tx.tokenTransfers[k].mint \in DOMAIN cache
              THEN TokenTransferLoop(tx, walletAddress, k + 1, cache,
                       Append(enhancedTransfers,
                              EnhancedTokenTransfer(tx, tx.tokenTransfers[k], walletAddress,
                                                    cache[tx.tokenTransfers[k].mint])))
              ELSE [await |-> k, enhancedTransfers |-> enhancedTransfers]

(* analyzeTransaction when getTokenMetadata answers every mint from the    *)
(* metadata given.                                                         *)
analyzeTransaction(tx, walletAddress, metadata) ==
    NativeTransferLoop(tx.nativeTransfers, walletAddress, 1,
        TokenTransferLoop(tx, walletAddress, 1, metadata, << >>).enhancedTransfers)

(* The token transfers that touch the wallet; the token loop pushes one    *)
(* entry for each, in order, before the native loop pushes any.            *)
Touching(tx, walletAddress) ==
    SelectSeq(tx.tokenTransfers, LAMBDA t : Involves(t, walletAddress))

CountType(enhancedTransfers, type) ==
    Cardinality({k \in 1..Len(enhancedTransfers) : enhancedTransfers[k].type = type})

(* A title that takes any BUY for a purchase.                              *)
EmbedTitleBuyFirst(enhancedTransfers) ==
    LET buyCount == CountType(enhancedTransfers, "BUY")
        sellCount == CountType(enhancedTransfers, "SELL")
    IN IF buyCount + sellCount > 0
       THEN IF buyCount > 0
            THEN [title |-> "Token Purchase", color |-> "0x00ff00"]
            ELSE [title |-> "Token Sale", color |-> "0xff0000"]
       ELSE IF CountType(enhancedTransfers, "TRANSFER") > 0
            THEN [title |-> "Transfer", color |-> "0x0099ff"]
            ELSE [title |-> "Transaction Detected", color |-> "0x00ff00"]

(* The title and the color of the embed.                                   *)
EmbedTitle(enhancedTransfers) ==
    LET buyCount == CountType(enhancedTransfers, "BUY")
        sellCount == CountType(enhancedTransfers, "SELL")
    IN IF buyCount + sellCount > 0
       THEN IF buyCount > 0 /\ sellCount = 0
            THEN [title |-> "Token Purchase", color |-> "0x00ff00"]
            ELSE IF sellCount > 0 /\ buyCount = 0
                 THEN [title |-> "Token Sale", color |-> "0xff0000"]
                 ELSE [title |-> "Token Swap", color |-> "0xffaa00"]
       ELSE IF CountType(enhancedTransfers, "TRANSFER") > 0
            THEN [title |-> "Transfer", color |-> "0x0099ff"]
            ELSE [title |-> "Transaction Detected", color |-> "0x00ff00"]

(* The field of one enhanced transfer: the action word and the symbol of   *)
(* its name, and of its value the amount, the SOL amount of a BUY or SELL, *)
(* the mint after "CA:" and the other party of a TRANSFER.                 *)
TransferField(transfer) ==
    [actionText |-> CASE transfer.type = "BUY" -> "BOUGHT"
                      [] transfer.type = "SELL" -> "SOLD"
                      [] OTHER -> IF transfer.isUserSender THEN "SENT" ELSE "RECEIVED",
     tokenSymbol |-> transfer.tokenSymbol,
     tokenAmount |-> transfer.tokenAmount,
     solAmount |-> IF transfer.type \in {"BUY", "SELL"} /\ Truthy(transfer.solAmount)
                   THEN transfer.solAmount ELSE NoAmount,
     tokenAddress |-> IF transfer.type = "TRANSFER" /\ transfer.tokenSymbol = "SOL"
                      THEN "" ELSE transfer.tokenAddress,
     otherAddress |-> IF transfer.type \in {"BUY", "SELL"} THEN ""
                      ELSE truncateAddress(IF transfer.isUserSender THEN transfer.toAddress
                                           ELSE transfer.fromAddress)]

(* new Date(timestamp * 1000).toISOString() throws a RangeError when the   *)
(* timestamp is no valid time.  The timestamp of a transaction is "number" *)
(* or "NaN".                                                               *)
ToISOStringThrows(timestamp) == timestamp = "NaN"

(* An embed construction that never throws.                                *)
createEnhancedTransactionEmbedNoThrow(tx, timestamp, walletAddress, walletName, enhancedTransfers) ==
    [threw |-> FALSE,
     embed |-> [title |-> EmbedTitle(enhancedTransfers).title,
                color |-> EmbedTitle(enhancedTransfers).color,
                walletName |-> walletName,
                address |-> truncateAddress(walletAddress),
                fields |-> [k \in 1..Len(enhancedTransfers) |->
                               TransferField(enhancedTransfers[k])],
                signature |-> tx.signature]]

(* createEnhancedTransactionEmbed: threw tells whether it threw.           *)
createEnhancedTransactionEmbed(tx, timestamp, walletAddress, walletName, enhancedTransfers) ==
    [threw |-> ToISOStringThrows(timestamp),
     embed |-> [title |-> EmbedTitle(enhancedTransfers).title,
                color |-> EmbedTitle(enhancedTransfers).color,
                walletName |-> walletName,
                address |-> truncateAddress(walletAddress),
                fields |-> [k \in 1..Len(enhancedTransfers) |->
                               TransferField(enhancedTransfers[k])],
                signature |-> tx.signature]]

-----------------------------------------------------------------------------
(* One run of handleSingleTransaction: the notifications of one canonical  *)
(* transaction, address by address, with what each step sends.             *)

(* DiscordNotifier.retryDelay, in milliseconds.                            *)
retryDelay == 1000

NoMessage == [embeds |-> << >>]

(* One entry of events.  kind is "lookupFailed" (a getAsset request that   *)
(* failed), "post" (a message handed to axios.post), "ok" or "fail" (how   *)
(* that post ended) or "delay" (a timer of ms milliseconds set).           *)
Event(kind, address, mint, message, attempt, ms) ==
    [kind |-> kind, address |-> address, mint |-> mint, message |-> message,
     attempt |-> attempt, ms |-> ms]

(* A swap between two tracked wallets in two mints.                        *)
BatchSwapTwoMints ==
    [EmptyObject EXCEPT !.type = "SWAP", !.signature = "sig4", !.feePayer = "A",
                        !.nativeTransfers = <<NativeTransfer("A", "B", 2000000000)>>,
                        !.tokenTransfers = <<TokenTransfer("B", "A", 100, "M"),
                                             TokenTransfer("B", "A", 50, "N")>>]

(* The canonical transactions handled, as the normalizer returns them.     *)
DeliverTransactions ==
    Range(extractTransactions(
              ArrayBody(<<BatchTransfer, BatchSwap, BatchUntracked, BatchSwapTwoMints>>)))
        \cup Range(extractTransactions(SingleBody(RawUnsignedToken)))

Timestamps == {"number", "NaN"}

DeliveryOff ==
    [pc |-> "off", transaction |-> NoRecord, timestamp |-> "number", involved |-> << >>,
     wIdx |-> 0, walletName |-> "", tokIdx |-> 0, enhancedTransfers |-> << >>,
     message |-> NoMessage, attempt |-> 0, error |-> ""]

DeliverOff ==
    /\ delivery = DeliveryOff
    /\ events = << >>

DeliverInit ==
    /\ \E tx \in DeliverTransactions : \E timestamp \in Timestamps :
          delivery = [DeliveryOff EXCEPT !.pc = "start", !.transaction = tx,
                                         !.timestamp = timestamp]
    /\ events = << >>

(* wallet?.label || 'Unknown Wallet', of wallets.find by address.          *)
WalletName(ws, address) ==
    LET ks == {k \in 1..Len(ws) : ws[k].address = address}
        label == IF ks = {} THEN ""
                 ELSE ws[CHOOSE k \in ks : \A j \in ks : k <= j].label
    IN IF label # "" THEN label ELSE "Unknown Wallet"

(* The catch of handleSingleTransaction: the error is logged and the call  *)
(* returns.                                                                *)
Caught(d, error) ==
    [d EXCEPT !.pc = "returned", !.error = error, !.message = NoMessage, !.attempt = 0,
              !.enhancedTransfers = << >>, !.tokIdx = 0]

(* A loop that notifies the first address only.                            *)
NextWalletFirstOnly(d) ==
    [d EXCEPT !.pc = "returned", !.message = NoMessage, !.attempt = 0,
              !.enhancedTransfers = << >>, !.tokIdx = 0]

(* The for loop of handleSingleTransaction after a notification has been   *)
(* sent: the sendTransactionNotification call of the next address, which   *)
(* first awaits getWallet, or the return.                                  *)
NextWallet(d) ==
    IF d.wIdx < Len(d.involved)
    THEN [d EXCEPT !.pc = "getWallet", !.wIdx = @ + 1, !.walletName = "", !.tokIdx = 0,
                   !.enhancedTransfers = << >>, !.message = NoMessage, !.attempt = 0]
    ELSE [d EXCEPT !.pc = "returned", !.message = NoMessage, !.attempt = 0,
                   !.enhancedTransfers = << >>, !.tokIdx = 0]

(* sendTransactionNotification from the token loop of analyzeTransaction   *)
(* at transfer k, with the entries pushed so far, up to its next await:    *)
(* the getAsset request of a cache miss, or, the native loop done and the  *)
(* embed and the message built, the first post of sendWithRetry.  A throw  *)
(* of the embed construction is rethrown by its catch and caught by        *)
(* handleSingleTransaction.  The result is the locals and the new events.  *)
Notify(d, k, cache, enhancedTransfers) ==
    LET tx == d.transaction
        walletAddress == d.involved[d.wIdx]
        loop == TokenTransferLoop(tx, walletAddress, k, cache, enhancedTransfers)
        enhanced == NativeTransferLoop(tx.nativeTransfers, walletAddress, 1,
                                       loop.enhancedTransfers)
        built == createEnhancedTransactionEmbed(tx, d.timestamp, walletAddress,
                                                d.walletName, enhanced)
        message == [embeds |-> <<built.embed>>]
    IN IF loop.await # 0
       THEN [delivery |-> [d EXCEPT !.pc = "lookup", !.tokIdx = loop.await,
                                    !.enhancedTransfers = loop.enhancedTransfers],
             events |-> << >>]
       ELSE IF built.threw
            THEN [delivery |-> Caught(d, "embed"), events |-> << >>]
            ELSE [delivery |-> [d EXCEPT !.pc = "post", !.tokIdx = 0,
                                         !.enhancedTransfers = enhanced,
                                         !.message = message, !.attempt = 1],
                  events |-> <<Event("post", walletAddress, "", message, 1, 0)>>]

(* A catch that rethrows.                                                  *)
getTokenMetadataRethrow(cache, mint) ==
    [threw |-> TRUE, metadata |-> Fallback, cache |-> cache]

(* The catch of getTokenMetadata: the fallback is cached and returned.     *)
getTokenMetadataCatch(cache, mint) ==
    [threw |-> FALSE, metadata |-> Fallback, cache |-> CacheSet(cache, mint, Fallback)]

(* A test that allows one retry more.                                      *)
ShouldRetryOnceMore(attempt) == attempt <= maxRetries

(* if (attempt < this.maxRetries)                                          *)
ShouldRetry(attempt) == attempt < maxRetries

(* handleSingleTransaction once getActiveWalletAddresses has answered.     *)
HandleSingleTransaction ==
    LET involved == findInvolvedWallets(delivery.transaction,
                                        getActiveWalletAddresses(wallets))
    IN /\ delivery.pc = "start"
       /\ delivery' = IF Len(involved) = 0
                      THEN [delivery EXCEPT !.pc = "returned"]
                      ELSE [delivery EXCEPT !.pc = "getWallet", !.involved = involved,
                                            !.wIdx = 1]
       /\ UNCHANGED <<events, nvars, mvars, wvars, svars, tvars, avars, hvars>>

(* sendTransactionNotification once getWallet has answered.                *)
SendTransactionNotification ==
    LET walletName == WalletName(wallets, delivery.involved[delivery.wIdx])
        next == Notify([delivery EXCEPT !.walletName = walletName], 1, tokenCache, << >>)
    IN /\ delivery.pc = "getWallet"
       /\ delivery' = next.delivery
       /\ events' = events \o next.events
       /\ UNCHANGED <<nvars, mvars, wvars, svars, tvars, avars, hvars>>

(* getTokenMetadata once its requests have ended.  The getAsset request    *)
(* answered, the metadata is cached whether the price request answers or   *)
(* fails; the getAsset request failed, the catch runs.                     *)
GetTokenMetadata ==
    LET d == delivery
        walletAddress == d.involved[d.wIdx]
        transfer == d.transaction.tokenTransfers[d.tokIdx]
        mint == transfer.mint
        entry(metadata) == EnhancedTokenTransfer(d.transaction, transfer, walletAddress,
                                                 metadata)
        failed == getTokenMetadataCatch(tokenCache, mint)
        failure == Event("lookupFailed", walletAddress, mint, NoMessage, 0, 0)
    IN /\ d.pc = "lookup"
       /\ \/ LET cache == CacheSet(tokenCache, mint, Metadata(Asset(mint)))
                 next == Notify(d, d.tokIdx + 1, cache,
                                Append(d.enhancedTransfers, entry(Metadata(Asset(mint)))))
             IN /\ tokenCache' = cache
                /\ delivery' = next.delivery
                /\ events' = events \o next.events
          \/ IF failed.threw
             THEN /\ delivery' = Caught(d, "lookup")
                  /\ events' = Append(events, failure)
                  /\ tokenCache' = failed.cache
             ELSE LET next == Notify(d, d.tokIdx + 1, failed.cache,
                                     Append(d.enhancedTransfers, entry(failed.metadata)))
                  IN /\ tokenCache' = failed.cache
                     /\ delivery' = next.delivery
                     /\ events' = Append(events, failure) \o next.events
       /\ UNCHANGED <<wallets, rvars, nvars, mvars, wvars, tvars, avars, hvars>>

(* sendWithRetry once its post has ended: answered, the call returns and   *)
(* the loop of handleSingleTransaction goes on; failed, a timer of         *)
(* retryDelay * attempt is set, or after the last attempt the error is     *)
(* thrown, rethrown by sendTransactionNotification and caught by           *)
(* handleSingleTransaction.                                                *)
SendWithRetry ==
    LET d == delivery
        walletAddress == d.involved[d.wIdx]
    IN /\ d.pc = "post"
       /\ \/ /\ delivery' = NextWallet(d)
             /\ events' = Append(events,
                                 Event("ok", walletAddress, "", d.message, d.attempt, 0))
          \/ /\ delivery' = IF ShouldRetry(d.attempt) THEN [d EXCEPT !.pc = "delay"]
                            ELSE Caught(d, "post")
             /\ events' = events
                    \o <<Event("fail", walletAddress, "", d.message, d.attempt, 0)>>
                    \o IF ShouldRetry(d.attempt)
                       THEN <<Event("delay", walletAddress, "", NoMessage, d.attempt,
                                    retryDelay * d.attempt)>>
                       ELSE << >>
       /\ UNCHANGED <<nvars, mvars, wvars, svars, tvars, avars, hvars>>

(* The timer of delay has fired: sendWithRetry(message, attempt + 1).      *)
Delay ==
    LET d == delivery
    IN /\ d.pc = "delay"
       /\ delivery' = [d EXCEPT !.pc = "post", !.attempt = @ + 1]
       /\ events' = Append(events, Event("post", d.involved[d.wIdx], "", d.message,
                                         d.attempt + 1, 0))
       /\ UNCHANGED <<nvars, mvars, wvars, svars, tvars, avars, hvars>>

-----------------------------------------------------------------------------
(* truncateAddress run on one address.                                     *)

MaxAddressLen == 13   \* longest enumerated address

Letters == {"a", "b"}

RECURSIVE StringsOfLen(_)
StringsOfLen(n) ==
    IF n = 0 THEN {""}
    ELSE {s \o c : s \in StringsOfLen(n - 1), c \in Letters}

(* Every string of Letters up to maxLen, and one base58 address.           *)
Addresses(maxLen) ==
    UNION {StringsOfLen(n) : n \in 0..maxLen}
        \cup {"7xKXtg2CW87d97TXJSDpbD5jBkheTqA83TZRuJosgAsU"}

TruncateOff == truncation = [address |-> "", display |-> "", done |-> FALSE]

TruncateInit ==
    \E address \in Addresses(MaxAddressLen) :
        truncation = [address |-> address, display |-> "", done |-> FALSE]

TruncateAddress ==
    /\ ~truncation.done
    /\ truncation' = [truncation EXCEPT !.display = truncateAddress(truncation.address),
                                        !.done = TRUE]
    /\ UNCHANGED <<nvars, mvars, wvars, svars, dvars, avars, hvars>>

-----------------------------------------------------------------------------
(* analyzeTransaction run on one transaction for the wallet "A", every     *)
(* mint answered by getTokenMetadata from the metadata given, and then     *)
(* createEnhancedTransactionEmbed run on its result, as                    *)
(* sendTransactionNotification does.                                       *)

MaxAnalyzed == 2   \* longest nativeTransfers / tokenTransfers list analyzed

AnalyzedNative ==
    {NativeTransfer("A", "U", 2000000000), NativeTransfer("U", "A", 2000000000),
     NativeTransfer("A", "U", 0), NativeTransfer("U", "A", 5000),
     NativeTransfer("U", "V", 7000)}

AnalyzedToken ==
    {TokenTransfer("U", "A", 100, "M"), TokenTransfer("A", "U", 100, "M"),
     TokenTransfer("A", "A", 100, "M"), TokenTransfer("U", "V", 100, "M"),
     TokenTransfer("U", "A", 50, "N")}

AnalyzedTransactions(maxAnalyzed) ==
    {CanonicalTransaction("sig1", "U", native, token, << >>) :
        native \in SeqsUpTo(AnalyzedNative, maxAnalyzed),
        token \in SeqsUpTo(AnalyzedToken, maxAnalyzed)}

(* What getTokenMetadata answers: the metadata of every mint looked up, or *)
(* the fallback for every mint.                                            *)
MetadataChoices ==
    {[m \in Mints |-> Metadata(Asset(m))], [m \in Mints |-> Fallback]}

NoEmbed ==
    [title |-> "", color |-> "", walletName |-> "", address |-> "", fields |-> << >>,
     signature |-> ""]

AnalysisOff ==
    [transaction |-> NoRecord, walletAddress |-> "", metadata |-> EmptyCache,
     enhancedTransfers |-> << >>, done |-> FALSE, embed |-> NoEmbed, built |-> FALSE]

AnalyzeOff == analysis = AnalysisOff

AnalyzeInit ==
    \E tx \in AnalyzedTransactions(MaxAnalyzed) : \E metadata \in MetadataChoices :
        analysis = [AnalysisOff EXCEPT !.transaction = tx, !.walletAddress = "A",
                                       !.metadata = metadata]

AnalyzeTransaction ==
    /\ analysis.walletAddress # ""
    /\ ~analysis.done
    /\ analysis' = [analysis EXCEPT
                       !.enhancedTransfers = analyzeTransaction(analysis.transaction,
                                                 analysis.walletAddress, analysis.metadata),
                       !.done = TRUE]
    /\ UNCHANGED <<nvars, mvars, wvars, svars, dvars, tvars, hvars>>

CreateEnhancedTransactionEmbed ==
    /\ analysis.done
    /\ ~analysis.built
    /\ analysis' = [analysis EXCEPT
                       !.embed = createEnhancedTransactionEmbed(analysis.transaction,
                                     "number", analysis.walletAddress,
                                     WalletName(wallets, analysis.walletAddress),
                                     analysis.enhancedTransfers).embed,
                       !.built = TRUE]
    /\ UNCHANGED <<nvars, mvars, wvars, svars, dvars, tvars, hvars>>

-----------------------------------------------------------------------------
(* Shutdown: WalletTrackerServer.start and shutdown, with the webhook      *)
(* requests of the connections the HTTP server holds.  A client is taken   *)
(* to keep its connection open until the response has arrived.  The        *)
(* server.close(callback) of Node stops the listening and calls the        *)
(* callback once no connection is open.                                    *)

MaxConns == 2      \* connections the server accepts
MaxKeepAlive == 2  \* requests one connection carries

Conns == 1..MaxConns

(* A connection is "none" (not yet made), "processing" (its handler awaits *)
(* processTransaction), "idle" (response sent, kept alive) or "closed";    *)
(* request counts the requests it has carried.                             *)
NoSocket == [state |-> "none", request |-> 0]

ServerStarted == [started |-> TRUE, listening |-> TRUE, closing |-> FALSE, exited |-> FALSE]

ShutdownOff ==
    /\ server = [started |-> FALSE, listening |-> FALSE, closing |-> FALSE, exited |-> FALSE]
    /\ sockets = [c \in {} |-> NoSocket]
    /\ inFlightAtSignal = {}
    /\ answered = {}

(* After start(): app.listen and the two signal handlers.                  *)
ShutdownInit ==
    /\ server = ServerStarted
    /\ sockets = [c \in Conns |-> NoSocket]
    /\ inFlightAtSignal = {}
    /\ answered = {}

InFlight == {<<c, sockets[c].request>> : c \in {d \in DOMAIN sockets : sockets[d].state = "processing"}}

(* A shutdown that exits at once.                                          *)
shutdownExitNow(srv) == [srv EXCEPT !.exited = TRUE]

(* shutdown(): with a server, server.close(callback); without, exit.       *)
shutdown(srv) ==
    IF srv.started THEN [srv EXCEPT !.listening = FALSE, !.closing = TRUE]
    ELSE [srv EXCEPT !.exited = TRUE]

(* A webhook request arrives on a new connection.                          *)
Connect(c) ==
    /\ ~server.exited
    /\ server.listening
    /\ sockets[c].state = "none"
    /\ sockets' = [sockets EXCEPT ![c] = [state |-> "processing", request |-> 1]]
    /\ UNCHANGED <<server, inFlightAtSignal, answered, nvars, mvars, wvars, svars, dvars,
                   tvars, avars>>

(* A further webhook request arrives on a connection kept alive.           *)
Request(c) ==
    /\ ~server.exited
    /\ sockets[c].state = "idle"
    /\ sockets[c].request < MaxKeepAlive
    /\ sockets' = [sockets EXCEPT ![c] = [state |-> "processing", request |-> @.request + 1]]
    /\ UNCHANGED <<server, inFlightAtSignal, answered, nvars, mvars, wvars, svars, dvars,
                   tvars, avars>>

(* The route: processTransaction has returned or thrown, and the response, *)
(* 200 or 500, is sent.                                                    *)
Respond(c) ==
    /\ ~server.exited
    /\ sockets[c].state = "processing"
    /\ sockets' = [sockets EXCEPT ![c].state = "idle"]
    /\ answered' = answered \cup {<<c, sockets[c].request>>}
    /\ UNCHANGED <<server, inFlightAtSignal, nvars, mvars, wvars, svars, dvars, tvars, avars>>

(* A connection with no request pending ends.                              *)
Disconnect(c) ==
    /\ ~server.exited
    /\ sockets[c].state = "idle"
    /\ sockets' = [sockets EXCEPT ![c].state = "closed"]
    /\ UNCHANGED <<server, inFlightAtSignal, answered, nvars, mvars, wvars, svars, dvars,
                   tvars, avars>>

(* SIGTERM or SIGINT: the handler calls shutdown().                        *)
Signal ==
    /\ ~server.exited
    /\ server' = shutdown(server)
    /\ inFlightAtSignal' = inFlightAtSignal \cup InFlight
    /\ UNCHANGED <<sockets, answered, nvars, mvars, wvars, svars, dvars, tvars, avars>>

(* The callback of server.close: no connection is open, process.exit(0).   *)
ServerClosed ==
    /\ ~server.exited
    /\ server.closing
    /\ \A c \in Conns : sockets[c].state \in {"none", "closed"}
    /\ server' = [server EXCEPT !.exited = TRUE]
    /\ UNCHANGED <<sockets, inFlightAtSignal, answered, nvars, mvars, wvars, svars, dvars,
                   tvars, avars>>

-----------------------------------------------------------------------------
(* The wallet store: WalletManager.addWallet, removeWallet and the         *)
(* getActiveWalletAddresses of handleSingleTransaction, each call at an    *)
(* await between two actions.  A read of the wallets file answers with     *)
(* what the file holds when it completes; a write replaces the content     *)
(* when it completes, or fails and leaves the file as it was or            *)
(* unreadable.  Reads of a file that exists and parses do not fail.        *)

Base58Alphabet == "123456789ABCDEFGHJKLMNPQRSTUVWXYZabcdefghijkmnopqrstuvwxyz"

Base58 == {SubSeq(Base58Alphabet, i, i) : i \in 1..Len(Base58Alphabet)}

(* A check of the length only.                                             *)
isValidSolanaAddressLengthOnly(address) == Len(address) \in 32..44

(* /^[1-9A-HJ-NP-Za-km-z]{32,44}$/.test(address)                           *)
isValidSolanaAddress(address) ==
    /\ Len(address) \in 32..44
    /\ \A i \in 1..Len(address) : SubSeq(address, i, i) \in Base58

WalletX == "7xKXtg2CW87d97TXJSDpbD5jBkheTqA83TZRuJosgAsU"

WalletY == "11111111111111111111111111111111"

(* Valid addresses, and one with a character outside base58, one of 31 and *)
(* one of 45 characters.                                                   *)
CallAddresses ==
    {WalletX, WalletY,
     "0xKXtg2CW87d97TXJSDpbD5jBkheTqA83TZRuJosgAsU",
     "1111111111111111111111111111111",
     "7xKXtg2CW87d97TXJSDpbD5jBkheTqA83TZRuJosgAsUx"}

Calls == 1..MaxCalls

(* A stored wallet; addedAt is the time of the call that added it, told    *)
(* by the number of that call.                                             *)
StoredWallet(address, label, addedAt, isActive) ==
    [address |-> address, label |-> label, addedAt |-> addedAt, isActive |-> isActive]

(* A call: its position, its arguments, the list it loaded, the list it    *)
(* saves, the wallets found involved; and, as history, whether another     *)
(* call was under way when it started and the addresses that were removed  *)
(* when it started and when its read ended.                                *)
IdleCall ==
    [pc |-> "idle", op |-> "", address |-> "", loaded |-> << >>, wallets |-> << >>,
     involved |-> << >>, concurrent |-> FALSE, removedBefore |-> {}, removedAfter |-> {}]

UnderWay == {c \in DOMAIN managerCalls : managerCalls[c].pc \in {"load", "save"}}

(* The transaction handled: a transfer paid by WalletX to WalletY.         *)
HandledTransaction ==
    CanonicalTransaction("sig1", WalletX, <<NativeTransfer(WalletX, WalletY, 5000)>>,
                         << >>, << >>)

StorageOff ==
    /\ storage = [fileReadable |-> TRUE, envSet |-> FALSE, envWallets |-> << >>,
                  writeFailures |-> 0]
    /\ managerCalls = [c \in {} |-> IdleCall]
    /\ removed = {}

(* After initialize() on an existing wallets file that holds no wallet.    *)
StorageInit ==
    /\ wallets = << >>
    /\ storage = [fileReadable |-> TRUE, envSet |-> FALSE, envWallets |-> << >>,
                  writeFailures |-> 0]
    /\ managerCalls = [c \in Calls |-> IdleCall]
    /\ removed = {}

(* loadWallets: the file, or when it cannot be read and parsed the         *)
(* environment variable, or [].                                            *)
loadWallets(file, st) ==
    IF st.fileReadable THEN file
    ELSE IF st.envSet THEN st.envWallets
    ELSE << >>

(* wallets.findIndex(w => w.address === address), 0 for -1.                *)
findIndex(list, address) ==
    LET ks == {k \in 1..Len(list) : list[k].address = address}
    IN IF ks = {} THEN 0 ELSE CHOOSE k \in ks : \A j \in ks : k <= j

(* Calls are numbered in the order they start.                             *)
MayStart(c) ==
    /\ managerCalls[c].pc = "idle"
    /\ IF c = 1 THEN TRUE ELSE managerCalls[c - 1].pc # "idle"

(* A removeWallet that deletes the entry.                                  *)
removeWalletDeleting(list, address) ==
    LET k == findIndex(list, address)
    IN IF k = 0 THEN [threw |-> TRUE, wallets |-> list]
       ELSE [threw |-> FALSE,
             wallets |-> SubSeq(list, 1, k - 1) \o SubSeq(list, k + 1, Len(list))]

(* removeWallet from the list loaded to the list it saves.                 *)
removeWalletOn(list, address) ==
    LET k == findIndex(list, address)
    IN IF k = 0 THEN [threw |-> TRUE, wallets |-> list]
       ELSE [threw |-> FALSE, wallets |-> [list EXCEPT ![k].isActive = FALSE]]

(* addWallet from the list loaded to the list it saves; the label the      *)
(* route passes is never empty.                                            *)
addWalletOn(list, address, label, now) ==
    LET k == findIndex(list, address)
    IN IF k # 0
       THEN IF list[k].isActive THEN [threw |-> TRUE, wallets |-> list]
            ELSE [threw |-> FALSE,
                  wallets |-> [list EXCEPT ![k].isActive = TRUE,
                                           ![k].label = IF label # "" THEN label ELSE @]]
       ELSE [threw |-> FALSE,
             wallets |-> Append(list, StoredWallet(address, label, now, TRUE))]

(* addWallet is called: the address check, then the read of loadWallets.   *)
AddWallet(c) ==
    /\ MayStart(c)
    /\ \E address \in CallAddresses :
          /\ managerCalls' = [managerCalls EXCEPT ![c] =
                 [IdleCall EXCEPT !.op = "add", !.address = address,
                                  !.concurrent = UnderWay # {},
                                  !.pc = IF isValidSolanaAddress(address) THEN "load"
                                         ELSE "threw"]]
          /\ removed' = removed \ {address}
    /\ UNCHANGED <<storage, nvars, mvars, svars, dvars, tvars, avars, hvars>>

(* removeWallet is called: the read of loadWallets.                        *)
RemoveWallet(c) ==
    /\ MayStart(c)
    /\ \E address \in {WalletX, WalletY} :
          managerCalls' = [managerCalls EXCEPT ![c] =
              [IdleCall EXCEPT !.op = "remove", !.address = address, !.pc = "load",
                               !.concurrent = UnderWay # {}]]
    /\ UNCHANGED <<storage, removed, nvars, mvars, svars, dvars, tvars, avars, hvars>>

(* handleSingleTransaction is called: the read of loadWallets under        *)
(* getActiveWalletAddresses.                                               *)
HandleTransaction(c) ==
    /\ MayStart(c)
    /\ managerCalls' = [managerCalls EXCEPT ![c] =
                    [IdleCall EXCEPT !.op = "handle", !.pc = "load",
                                     !.concurrent = UnderWay # {},
                                     !.removedBefore = removed]]
    /\ UNCHANGED <<storage, removed, nvars, mvars, svars, dvars, tvars, avars, hvars>>

(* The read of loadWallets has ended: the call goes on to its throw, to    *)
(* the write of saveWallets, or, handling a transaction, to the wallets    *)
(* findInvolvedWallets returns.                                            *)
LoadWallets(c) ==
    LET call == managerCalls[c]
        list == loadWallets(wallets, storage)
        next == IF call.op = "add" THEN addWalletOn(list, call.address, "API Added", c)
                ELSE removeWalletOn(list, call.address)
    IN /\ call.pc = "load"
       /\ managerCalls' = [managerCalls EXCEPT ![c] =
              IF call.op = "handle"
              THEN [call EXCEPT !.pc = "returned", !.loaded = list,
                                !.involved = findInvolvedWallets(HandledTransaction,
                                                 getActiveWalletAddresses(list)),
                                !.removedAfter = removed]
              ELSE [call EXCEPT !.pc = IF next.threw THEN "threw" ELSE "save",
                                !.loaded = list, !.wallets = next.wallets]]
       /\ UNCHANGED <<storage, removed, nvars, mvars, svars, dvars, tvars, avars, hvars>>

(* saveWallets has ended: the file written, or the write failed and        *)
(* caught; then PERSISTENT_WALLETS set, and the call returns true.         *)
SaveWallets(c) ==
    LET call == managerCalls[c]
        env == [storage EXCEPT !.envSet = TRUE, !.envWallets = call.wallets]
    IN /\ call.pc = "save"
       /\ \/ /\ wallets' = call.wallets
             /\ storage' = [env EXCEPT !.fileReadable = TRUE]
          \/ /\ storage.writeFailures < MaxWriteFailures
             /\ UNCHANGED wallets
             /\ \E readable \in {storage.fileReadable, FALSE} :
                   storage' = [env EXCEPT !.fileReadable = readable,
                                          !.writeFailures = @ + 1]
       /\ managerCalls' = [managerCalls EXCEPT ![c].pc = "returned"]
       /\ removed' = IF call.op = "remove" THEN removed \cup {call.address}
                     ELSE removed
       /\ UNCHANGED <<tokenCache, rvars, nvars, mvars, dvars, tvars, avars, hvars>>

-----------------------------------------------------------------------------
(* The specifications.                                                     *)

OthersOff == DeliverOff /\ TruncateOff /\ AnalyzeOff /\ ShutdownOff /\ StorageOff

Init == NormalizerOff /\ MatcherOff /\ ServerInit /\ OthersOff

Next ==
    \E r \in Reqs :
        \/ Receive(r)
        \/ LoadTracked(r)
        \/ GetWallet(r)
        \/ LookupDone(r)
        \/ PriceDone(r)
        \/ PostDone(r)
        \/ DelayDone(r)

Spec == Init /\ [][Next]_vars

InitNormalize == NormalizerInit /\ MatcherOff /\ ServerInit /\ OthersOff

SpecNormalize == InitNormalize /\ [][ExtractTransactions]_vars

InitNative == NativeInit /\ MatcherOff /\ ServerInit /\ OthersOff

SpecNative == InitNative /\ [][ExtractTransactions]_vars

InitMatch == NormalizerOff /\ MatcherInit /\ ServerInit /\ OthersOff

SpecMatch == InitMatch /\ [][FindInvolvedWallets]_vars

InitDeliver ==
    /\ NormalizerOff /\ MatcherOff /\ ServerInit
    /\ DeliverInit /\ TruncateOff /\ AnalyzeOff /\ ShutdownOff /\ StorageOff

NextDeliver ==
    \/ HandleSingleTransaction
    \/ SendTransactionNotification
    \/ GetTokenMetadata
    \/ SendWithRetry
    \/ Delay

SpecDeliver == InitDeliver /\ [][NextDeliver]_vars

InitTruncate ==
    /\ NormalizerOff /\ MatcherOff /\ ServerInit
    /\ DeliverOff /\ TruncateInit /\ AnalyzeOff /\ ShutdownOff /\ StorageOff

SpecTruncate == InitTruncate /\ [][TruncateAddress]_vars

InitAnalyze ==
    /\ NormalizerOff /\ MatcherOff /\ ServerInit
    /\ DeliverOff /\ TruncateOff /\ AnalyzeInit /\ ShutdownOff /\ StorageOff

NextAnalyze ==
    \/ AnalyzeTransaction
    \/ CreateEnhancedTransactionEmbed

SpecAnalyze == InitAnalyze /\ [][NextAnalyze]_vars

InitShutdown ==
    /\ NormalizerOff /\ MatcherOff /\ ServerInit
    /\ DeliverOff /\ TruncateOff /\ AnalyzeOff /\ ShutdownInit /\ StorageOff

InitWallets ==
    /\ NormalizerOff /\ MatcherOff
    /\ tokenCache = EmptyCache
    /\ requests = [r \in Reqs |-> IdleRequest]
    /\ lookupCount = [m \in Mints |-> 0]
    /\ cacheHits = [m \in Mints |-> 0]
    /\ matchedTx = {} /\ notifierCalls = {} /\ posted = {}
    /\ failedPairs = {} /\ caught = {} /\ postFailures = 0
    /\ DeliverOff /\ TruncateOff /\ AnalyzeOff /\ ShutdownOff
    /\ StorageInit

NextWallets ==
    \E c \in Calls :
        \/ AddWallet(c)
        \/ RemoveWallet(c)
        \/ HandleTransaction(c)
        \/ LoadWallets(c)
        \/ SaveWallets(c)

SpecWallets == InitWallets /\ [][NextWallets]_vars

NextShutdown ==
    \/ \E c \in Conns : Connect(c) \/ Request(c) \/ Respond(c) \/ Disconnect(c)
    \/ Signal
    \/ ServerClosed

SpecShutdown == InitShutdown /\ [][NextShutdown]_vars

-----------------------------------------------------------------------------
(* Properties of the normalizer, under SpecNormalize.                      *)

(* An element that is null, a primitive, or an object of neither the       *)
(* Enhanced shape (type and signature) nor the Raw shape (transaction and  *)
(* meta).                                                                  *)
Malformed(data) ==
    \/ data.kind \in {"null", "prim"}
    \/ /\ ~(data.type # "" /\ data.signature # "")
       /\ ~(data.transaction.present /\ data.meta.present)

MalformedAt(items) == {k \in 1..Len(items) : Malformed(items[k])}

(* C1: an array body holding exactly one malformed element, at any         *)
(* position, yields one canonical transaction per other element, each the  *)
(* one that element yields alone, in the array's order.                    *)
C1_ArrayElementsIndependent ==
    (stage = "extracted" /\ webhookData.isArray
        /\ Cardinality(MalformedAt(webhookData.items)) = 1)
    => LET good == SelectSeq(webhookData.items, LAMBDA d : ~Malformed(d))
       IN /\ Len(transactions) = Len(webhookData.items) - 1
          /\ \A k \in 1..Len(good) :
                /\ k <= Len(transactions)
                /\ <<transactions[k]>> = extractTransactions(ArrayBody(<<good[k]>>))

(* A null between two parseable elements: both are returned.               *)
C1_Witness ==
    /\ stage = "extracted"
    /\ webhookData.isArray
    /\ Len(webhookData.items) = 3
    /\ MalformedAt(webhookData.items) = {2}
    /\ webhookData.items[2].kind = "null"
    /\ Len(transactions) = 2

(* C2: the raw payload with preBalances [1000000000, 500000000],           *)
(* postBalances [999995000, 500005000] and accountKeys ["A", "B"] yields   *)
(* exactly one native transfer, from "A" to "B" with amount 5000.          *)
C2_ScenarioOneTransfer ==
    (stage = "extracted" /\ webhookData = SingleBody(ScenarioRaw))
    => /\ Len(transactions) = 1
       /\ transactions[1].nativeTransfers = <<NativeTransfer("A", "B", 5000)>>

(* C6: every canonical transaction the normalizer returns has a non-empty  *)
(* signature.                                                              *)
C6_SignatureNonEmpty ==
    stage = "extracted" => \A k \in 1..Len(transactions) : transactions[k].signature # ""

(* The shapes of a record the normalizer returns.                          *)
IsCanonical(tx) ==
    /\ DOMAIN tx = DOMAIN NoRecord
    /\ tx.type # ""
    /\ tx.source # ""
    /\ tx.description # ""

(* C12: extractTransactions throws for no webhook body: for a null, a      *)
(* primitive, an empty object, an array with malformed elements and an     *)
(* object with missing nested fields alike the call returns a list,        *)
(* possibly empty, of canonical transactions, at most one per element.     *)
C12_NeverThrows ==
    /\ stage # "threw"
    /\ stage = "extracted"
          => /\ Len(transactions) <= Len(webhookData.items)
             /\ \A k \in 1..Len(transactions) : IsCanonical(transactions[k])
             /\ (\A k \in 1..Len(webhookData.items) : Malformed(webhookData.items[k]))
                   => transactions = << >>

(* The body null: reading its transaction field throws inside the try      *)
(* block, and the empty list is returned.                                  *)
C12_Witness ==
    /\ stage = "extracted"
    /\ webhookData = SingleBody(NullItem)
    /\ TryThrows(webhookData)
    /\ transactions = << >>

(* C18: a single object of the Enhanced shape (type and signature) or of   *)
(* the Raw shape (transaction and meta) sent as the body is normalized to  *)
(* the canonical transactions of the one-element array holding it.         *)
C18_SingleEqualsArray ==
    (stage = "extracted" /\ ~webhookData.isArray
        /\ (IsEnhanced(webhookData.items[1]) \/ IsRaw(webhookData.items[1])))
    => transactions = extractTransactions(ArrayBody(webhookData.items))

(* C21: no canonical transaction the normalizer returns, from an Enhanced  *)
(* or a Raw payload, holds an account-delta record whose native balance    *)
(* change is zero.                                                         *)
C21_NoZeroDelta ==
    stage = "extracted"
    => \A k \in 1..Len(transactions) :
          \A d \in 1..Len(transactions[k].accountData) :
              transactions[k].accountData[d].nativeBalanceChange # 0

(* A Raw-shape body whose accountKeys name one distinct account for each   *)
(* balance index, so that a transfer's addresses tell its indices.         *)
WellFormedRaw ==
    /\ stage = "extracted"
    /\ Len(webhookData.items) = 1
    /\ IsRaw(webhookData.items[1])
    /\ ~IsEnhanced(webhookData.items[1])
    /\ LET keys == webhookData.items[1].transaction.accountKeys
           meta == webhookData.items[1].meta
       IN /\ Len(meta.preBalances) = Len(keys)
          /\ Len(meta.postBalances) = Len(keys)
          /\ \A i, j \in 1..Len(keys) : keys[i] = keys[j] => i = j
    /\ Len(transactions) = 1

(* post minus pre of the account of a well-formed Raw body.                *)
DeltaOf(account) ==
    LET keys == webhookData.items[1].transaction.accountKeys
        meta == webhookData.items[1].meta
        i == CHOOSE k \in 1..Len(keys) : keys[k] = account
    IN meta.postBalances[i] - meta.preBalances[i]

(* C22: in every native transfer extractNativeTransfers emits, the sender  *)
(* is an account whose balance delta (post minus pre) is negative, the     *)
(* receiver is the other account of the pair, and the amount is the        *)
(* absolute value of the delta of one of the two, hence non-negative.      *)
C22_SenderHasNegativeDelta ==
    WellFormedRaw
    => \A k \in 1..Len(transactions[1].nativeTransfers) :
          LET t == transactions[1].nativeTransfers[k]
          IN /\ DeltaOf(t.fromUserAccount) < 0
             /\ t.toUserAccount # t.fromUserAccount
             /\ t.amount >= 0
             /\ t.amount \in {Abs(DeltaOf(t.fromUserAccount)), Abs(DeltaOf(t.toUserAccount))}

-----------------------------------------------------------------------------
(* Properties of extractNativeTransfers, under SpecNative.                 *)

PreBalances == webhookData.items[1].meta.preBalances

PostBalances == webhookData.items[1].meta.postBalances

(* The indices whose delta is not zero.                                    *)
Changed == {i \in 1..Len(PreBalances) : Difference(PreBalances, PostBalances, i) # 0}

(* The indices j # i that pass the fee-tolerance test with i.              *)
Partners(i) ==
    {j \in 1..Len(PreBalances) \ {i} :
        Abs(Difference(PreBalances, PostBalances, i)
                + Difference(PreBalances, PostBalances, j)) < FeeTolerance}

Paired == {i \in Changed : Partners(i) # {}}

(* C23: extractNativeTransfers emits at most one transfer per account      *)
(* index i, in index order, only when the delta at i is not zero, and it   *)
(* pairs i with the lowest index j # i that passes the fee-tolerance test  *)
(* on the sum of the two deltas; the transfers are never more than the     *)
(* accounts whose delta is not zero.                                       *)
C23_OneTransferPerIndex ==
    stage = "extracted"
    => LET out == transactions[1].nativeTransfers
           keys == webhookData.items[1].transaction.accountKeys
       IN /\ Len(transactions) = 1
          /\ Len(out) = Cardinality(Paired)
          /\ Len(out) <= Cardinality(Changed)
          /\ \A i \in Paired :
                LET k == Cardinality({h \in Paired : h <= i})
                    j == CHOOSE l \in Partners(i) : \A m \in Partners(i) : l <= m
                IN /\ k <= Len(out)
                   /\ {out[k].fromUserAccount, out[k].toUserAccount} = {keys[i], keys[j]}
                   /\ out[k].amount = Abs(Difference(PreBalances, PostBalances, i))

(* Deltas -5000, +5000, +5600: the first index has two partners and is     *)
(* paired with the second; the third changed too, so that three transfers  *)
(* are emitted.                                                            *)
C23_Witness ==
    /\ stage = "extracted"
    /\ PreBalances = <<5000, 0, 0>>
    /\ PostBalances = <<0, 5000, 5600>>
    /\ Partners(1) = {2, 3}
    /\ Len(transactions[1].nativeTransfers) = 3
    /\ transactions[1].nativeTransfers[1] = NativeTransfer("A", "B", 5000)

-----------------------------------------------------------------------------
(* Properties of the matcher, under SpecMatch.                             *)

(* The fee payer, the parties of the transfers and the delta accounts.     *)
Parties(tx) ==
    {tx.feePayer}
        \cup {tx.nativeTransfers[k].fromUserAccount : k \in 1..Len(tx.nativeTransfers)}
        \cup {tx.nativeTransfers[k].toUserAccount : k \in 1..Len(tx.nativeTransfers)}
        \cup {tx.tokenTransfers[k].fromUserAccount : k \in 1..Len(tx.tokenTransfers)}
        \cup {tx.tokenTransfers[k].toUserAccount : k \in 1..Len(tx.tokenTransfers)}
        \cup {tx.accountData[k].account : k \in 1..Len(tx.accountData)}

(* C5: for a canonical transaction with the empty signature,               *)
(* findInvolvedWallets returns the empty set.                              *)
C5_EmptySignatureNoMatch ==
    (matched /\ transaction.signature = "") => involvedWallets = << >>

(* C10: findInvolvedWallets returns exactly the tracked addresses that are *)
(* the fee payer, a party of a native or token transfer, or the account of *)
(* a delta, each once; for a native transfer X to Y it holds X when X is   *)
(* tracked, Y when Y is tracked, and nothing when neither is.              *)
C10_ExactInvolvement ==
    matched =>
        /\ Range(involvedWallets) = Range(trackedAddresses) \cap Parties(transaction)
        /\ Cardinality(Range(involvedWallets)) = Len(involvedWallets)
        /\ \A k \in 1..Len(transaction.nativeTransfers) :
              LET X == transaction.nativeTransfers[k].fromUserAccount
                  Y == transaction.nativeTransfers[k].toUserAccount
              IN /\ Includes(trackedAddresses, X) => Includes(involvedWallets, X)
                 /\ Includes(trackedAddresses, Y) => Includes(involvedWallets, Y)
                 /\ (Parties(transaction) = {X, Y} /\ ~Includes(trackedAddresses, X)
                        /\ ~Includes(trackedAddresses, Y)) => involvedWallets = << >>

(* "a" pays the fee and receives from "B"; "A", which differs from the     *)
(* tracked "a" in case only, has a delta: the result is "a" once, then "B".*)
C10_Witness ==
    /\ matched
    /\ transaction.feePayer = "a"
    /\ transaction.nativeTransfers = <<NativeTransfer("B", "a", 7000)>>
    /\ transaction.accountData = <<AccountData("A", -5000)>>
    /\ Range(trackedAddresses) = {"a", "B"}
    /\ involvedWallets = <<"a", "B">>

-----------------------------------------------------------------------------
(* Properties of the server, under Spec.                                   *)

TxsOf(r) == requests[r].transactions

(* handleSingleTransaction has returned for transaction i of request r.    *)
Handled(r, i) == i < requests[r].txIdx

Active == getActiveWalletAddresses(wallets)

CallsFor(calls, r, i) == {c \in calls : c[1] = r /\ c[2] = i}

(* C3: when the delivery for one address of a transaction has failed after *)
(* the retries, every other tracked address the transaction implicates has *)
(* had its notification attempted by the time the transaction is handled.  *)
C3_OtherAddressesStillNotified ==
    \A r \in Reqs : \A i \in 1..Len(TxsOf(r)) :
        (Handled(r, i) /\ CallsFor(failedPairs, r, i) # {})
        => \A w \in Range(findInvolvedWallets(TxsOf(r)[i], Active)) :
              <<r, i, w>> \in notifierCalls

(* C4: when a delivery of transaction i has failed after the retries,      *)
(* every later transaction j of the batch has been matched by the time the *)
(* request is answered and, if it implicates a tracked address, a          *)
(* notification for it has been sent to the delivery endpoint.             *)
C4_LaterTransactionsHandled ==
    \A r \in Reqs : \A i, j \in 1..Len(TxsOf(r)) :
        (requests[r].pc = "done" /\ i < j /\ CallsFor(failedPairs, r, i) # {})
        => /\ <<r, j>> \in matchedTx
           /\ Len(findInvolvedWallets(TxsOf(r)[j], Active)) > 0
                => CallsFor(notifierCalls, r, j) \cap CallsFor(posted, r, j) # {}

(* The delivery for "A" of the first transaction failed three times; the   *)
(* second was notified and the third matched.                              *)
C4_Witness ==
    \E r \in Reqs :
        /\ requests[r].pc = "done"
        /\ Len(TxsOf(r)) = 3
        /\ <<r, 1, "A">> \in failedPairs
        /\ <<r, 2, "A">> \in posted
        /\ <<r, 3>> \in matchedTx

(* C7 as stated: the external lookup is invoked at most once per mint,     *)
(* however the calls interleave.                                           *)
C7_AtMostOneLookup == \A m \in Mints : lookupCount[m] <= 1

(* C7 as amended: a lookup is sent for a mint only while the cache holds   *)
(* no entry for it, and an entry is never removed.                         *)
C7_LookupOnlyOnMiss ==
    [][\A m \in Mints :
          /\ lookupCount'[m] # lookupCount[m] => m \notin DOMAIN tokenCache
          /\ m \in DOMAIN tokenCache => m \in DOMAIN tokenCache']_vars

(* Two requests have each resolved "M" twice: one lookup, three cache hits.*)
C7_Witness ==
    /\ \A r \in {1, 2} : requests[r].pc = "done" /\ <<r, 2, "A">> \in posted
    /\ lookupCount["M"] = 1
    /\ cacheHits["M"] = 3

(* The requests whose getTokenMetadata call for the mint awaits its        *)
(* getAsset or price request.                                              *)
Resolving(m) ==
    {r \in Reqs :
        /\ requests[r].pc \in {"lookup", "price"}
        /\ requests[r].transactions[requests[r].txIdx]
               .tokenTransfers[requests[r].tokIdx].mint = m}

(* C30 as stated: once the fallback has been cached for a mint, the cache  *)
(* holds the fallback for that mint from then on.                          *)
C30_FallbackStays ==
    [][\A m \in Mints :
          (m \in DOMAIN tokenCache /\ tokenCache[m] = Fallback)
          => (m \in DOMAIN tokenCache' /\ tokenCache'[m] = Fallback)]_vars

(* C30 as amended: a failed lookup caches the fallback; while a mint has   *)
(* an entry no lookup is sent for it and the entry is not removed; and the *)
(* entry changes only when a resolution ends that was awaiting its answer, *)
(* so with no other resolution of the mint under way the fallback stays.   *)
C30_FallbackCachedLikeReal ==
    [][\A m \in Mints :
          /\ \A r \in Resolving(m) :
                (requests[r].pc = "lookup" /\ requests'[r].pc \notin {"lookup", "price"})
                => (m \in DOMAIN tokenCache' /\ tokenCache'[m] = Fallback)
          /\ m \in DOMAIN tokenCache
                => /\ m \in DOMAIN tokenCache'
                   /\ lookupCount'[m] = lookupCount[m]
                   /\ tokenCache'[m] # tokenCache[m]
                         => \E r \in Resolving(m) : requests'[r].pc # requests[r].pc]_vars

(* The lookup of "M" failed once; the second transfer of "M" was then      *)
(* resolved from the cache, which still holds the fallback.                *)
C30_Witness ==
    /\ lookupCount["M"] = 1
    /\ cacheHits["M"] = 1
    /\ "M" \in DOMAIN tokenCache
    /\ tokenCache["M"] = Fallback
    /\ \E r \in Reqs : requests[r].pc = "done" /\ <<r, 2, "A">> \in posted

InProgress == {r \in Reqs : requests[r].pc \notin {"idle", "done"}}

(* C8 as stated: the processing steps of two deliveries never interleave.  *)
C8_NoInterleaving == Cardinality(InProgress) <= 1

(* C8 as amended: the transactions of a delivery are handled one at a time *)
(* in order, and the delivery is answered 200 only when all of them have   *)
(* been handled.                                                           *)
C8_DeliveryCompletesInOrder ==
    \A r \in Reqs :
        /\ requests[r].status = 200
              => \A i \in 1..Len(TxsOf(r)) : <<r, i>> \in matchedTx /\ Handled(r, i)
        /\ \A i \in 1..Len(TxsOf(r)) :
              /\ <<r, i>> \in matchedTx => i <= requests[r].txIdx
              /\ CallsFor(notifierCalls, r, i) # {} => <<r, i>> \in matchedTx
              /\ i < requests[r].txIdx => <<r, i>> \in matchedTx

(* A batch of three answered 200 while another delivery is in progress.    *)
C8_Witness ==
    \E r \in Reqs :
        /\ requests[r].status = 200
        /\ Len(TxsOf(r)) = 3
        /\ InProgress # {}

(* C9: a transaction whose fee payer, transfer parties and delta accounts  *)
(* are all outside the active tracked addresses causes no call to the      *)
(* notifier and none to the delivery endpoint, and its handling returns    *)
(* without an error.                                                       *)
C9_UntrackedTransactionSilent ==
    \A r \in Reqs : \A i \in 1..Len(TxsOf(r)) :
        (Parties(TxsOf(r)[i]) \cap Range(Active) = {})
        => /\ CallsFor(notifierCalls, r, i) = {}
           /\ CallsFor(posted, r, i) = {}
           /\ <<r, i>> \notin caught
           /\ <<r, i>> \in matchedTx => Handled(r, i)

(* The third transaction of the batch, paid by the inactive "C" and moving *)
(* funds between unknown accounts, has been handled.                       *)
C9_Witness ==
    \E r \in Reqs :
        /\ Len(TxsOf(r)) = 3
        /\ Parties(TxsOf(r)[3]) \cap Range(Active) = {}
        /\ <<r, 3>> \in matchedTx
        /\ Handled(r, 3)

(* C25: processTransaction rejects for no body: a delivery that failed     *)
(* after its retries is caught inside handleSingleTransaction, and every   *)
(* request that has been answered was answered HTTP 200, also one whose    *)
(* deliveries all failed.                                                  *)
C25_AlwaysAnswered200 ==
    \A r \in Reqs :
        /\ requests[r].status \in {0, 200}
        /\ requests[r].pc = "done" => requests[r].status = 200

(* A request answered 200 although every notification it attempted failed  *)
(* after the retries.                                                      *)
C25_Witness ==
    \E r \in Reqs :
        /\ requests[r].pc = "done"
        /\ requests[r].status = 200
        /\ \E pair \in notifierCalls : pair[1] = r
        /\ \A pair \in notifierCalls : pair[1] = r => pair \in failedPairs

-----------------------------------------------------------------------------
(* Properties of the wallet store, under SpecWallets.                      *)

(* The list a load of the store returns now.                               *)
Stored == loadWallets(wallets, storage)

(* C27: after any addWallet and removeWallet calls from an empty store,    *)
(* also calls whose loads and saves interleave, the stored list never      *)
(* holds two entries with one address, and, no write having failed, every  *)
(* address whose addWallet returned is in the stored list.                 *)
C27_NoDuplicateNoLostWallet ==
    /\ \A i, j \in 1..Len(Stored) : Stored[i].address = Stored[j].address => i = j
    /\ storage.writeFailures = 0
          => \A c \in Calls :
                (managerCalls[c].op = "add" /\ managerCalls[c].pc = "returned")
                => findIndex(Stored, managerCalls[c].address) # 0

(* No call started while another was under way.                            *)
Sequential == \A c \in Calls : ~managerCalls[c].concurrent

(* What call c does in one step of a run whose calls do not overlap and    *)
(* whose writes succeed.                                                   *)
C28_Call(c) ==
    LET before == managerCalls[c]
        after == managerCalls'[c]
        k == findIndex(wallets, after.address)
    IN /\ (before.pc = "idle" /\ after.op = "add")
             => (after.pc = "threw") = (after.address \notin {WalletX, WalletY})
       /\ (before.pc = "load" /\ after.op = "add")
             => (after.pc = "threw") = (k # 0 /\ wallets[k].isActive)
       /\ (before.pc = "load" /\ after.op = "remove")
             => (after.pc = "threw") = (k = 0)
       /\ (before.pc # "threw" /\ after.pc = "threw")
             => wallets' = wallets /\ storage' = storage
       /\ (before.pc = "save" /\ after.pc = "returned")
             => /\ Len(wallets') >= Len(wallets)
                /\ \A i \in 1..Len(wallets) :
                      /\ wallets'[i].address = wallets[i].address
                      /\ wallets'[i].addedAt = wallets[i].addedAt
                      /\ i # k => wallets'[i] = wallets[i]
                /\ before.op = "remove"
                      => /\ Len(wallets') = Len(wallets)
                         /\ ~wallets'[k].isActive
                /\ (before.op = "add" /\ k # 0)
                      => /\ Len(wallets') = Len(wallets)
                         /\ ~wallets[k].isActive
                         /\ wallets'[k].isActive
                /\ (before.op = "add" /\ k = 0)
                      => /\ Len(wallets') = Len(wallets) + 1
                         /\ wallets'[Len(wallets')].address = before.address
                         /\ wallets'[Len(wallets')].isActive

C29_RemovedStaysInactive ==
    Sequential
    => \A c \in Calls :
          (managerCalls[c].op = "handle" /\ managerCalls[c].pc = "returned")
          => \A a \in managerCalls[c].removedBefore \cap managerCalls[c].removedAfter :
                /\ a \notin Range(getActiveWalletAddresses(managerCalls[c].loaded))
                /\ a \notin Range(managerCalls[c].involved)

-----------------------------------------------------------------------------
(* Properties of the notifier, under SpecDeliver.                          *)

EventsOf(kind) == {k \in 1..Len(events) : events[k].kind = kind}

(* The fields of a message that show the mint.                             *)
FieldsOf(message, mint) ==
    {f \in Range(message.embeds[1].fields) : f.tokenAddress = mint}

(* C11: a failed metadata lookup raises no error: the mint is cached with  *)
(* the symbol "UNKNOWN" and 9 decimals, and, once the analysis for that    *)
(* address is over and unless the embed construction throws on its own,    *)
(* a message for the address that shows the mint with that symbol and      *)
(* those decimals has been handed to the delivery step.                    *)
C11_FallbackStillDelivered ==
    /\ delivery.error # "lookup"
    /\ \A k \in EventsOf("lookupFailed") :
          LET address == events[k].address
              mint == events[k].mint
              analysing == /\ delivery.pc = "lookup"
                           /\ delivery.involved[delivery.wIdx] = address
          IN /\ mint \in DOMAIN tokenCache
             /\ tokenCache[mint].symbol = "UNKNOWN"
             /\ tokenCache[mint].decimals = 9
             /\ (~analysing /\ delivery.timestamp = "number")
                   => \E j \in EventsOf("post") :
                         /\ j > k
                         /\ events[j].address = address
                         /\ FieldsOf(events[j].message, mint) # {}
                         /\ \A f \in FieldsOf(events[j].message, mint) :
                               f.tokenSymbol = "UNKNOWN" /\ f.tokenAmount.e = 9

(* The lookup of "M", a mint of 6 decimals, failed for "A"; the message    *)
(* for "A" was delivered.                                                  *)
C11_Witness ==
    /\ \E k \in EventsOf("lookupFailed") :
          events[k].address = "A" /\ events[k].mint = "M"
    /\ \E j \in EventsOf("ok") :
          /\ events[j].address = "A"
          /\ \E f \in FieldsOf(events[j].message, "M") :
                f.tokenSymbol = "UNKNOWN" /\ f.tokenAmount = Amount(100, 9)
    /\ delivery.pc = "returned"
    /\ delivery.error = ""

PostsFor(address) == {k \in EventsOf("post") : events[k].address = address}

(* C13: a message is posted at most 3 times, each attempt number once; no  *)
(* post follows the first one that succeeded; attempt n + 1 comes right    *)
(* after a delay of 1000 * n milliseconds that follows the failure of      *)
(* attempt n; the error is thrown only by the third failure; and the       *)
(* caller, having caught it, posts nothing more.                           *)
C13_RetrySchedule ==
    /\ \A address \in Range(delivery.involved) :
          /\ Cardinality(PostsFor(address)) <= 3
          /\ \A k, j \in PostsFor(address) :
                events[k].attempt = events[j].attempt => k = j
          /\ \A k \in PostsFor(address) :
                \/ events[k].attempt = 1
                \/ /\ k > 2
                   /\ events[k - 1].kind = "delay"
                   /\ events[k - 1].address = address
                   /\ events[k - 1].ms = 1000 * (events[k].attempt - 1)
                   /\ events[k - 2].kind = "fail"
                   /\ events[k - 2].address = address
                   /\ events[k - 2].attempt = events[k].attempt - 1
          /\ \A k \in EventsOf("ok") :
                events[k].address = address => \A j \in PostsFor(address) : j < k
    /\ \A k \in EventsOf("fail") :
          IF events[k].attempt < 3
          THEN /\ delivery.error # "post" \/ k < Len(events)
               /\ k < Len(events) => events[k + 1].kind = "delay"
          ELSE /\ k = Len(events)
               /\ delivery.error = "post"
               /\ delivery.pc = "returned"
    /\ delivery.error = "post"
          => events[Len(events)].kind = "fail" /\ events[Len(events)].attempt = 3

(* The message for "A" went through at the third attempt, after delays of  *)
(* 1000 and 2000 milliseconds; the message for "B" failed three times.     *)
C13_Witness ==
    /\ delivery.error = "post"
    /\ delivery.involved = <<"A", "B">>
    /\ \E k \in EventsOf("ok") : events[k].address = "A" /\ events[k].attempt = 3
    /\ {events[k].ms : k \in EventsOf("delay")} = {1000, 2000}
    /\ Cardinality(PostsFor("A")) = 3
    /\ Cardinality(PostsFor("B")) = 3

(* The addresses of the events of a kind, in the order of the events.      *)
AddressesOf(kind) ==
    LET of == SelectSeq(events, LAMBDA e : e.kind = kind)
    IN [k \in 1..Len(of) |-> of[k].address]

(* C17: every message handed to the delivery step holds exactly one embed, *)
(* which names one address (truncated), an implicated one, the one the    *)
(* call is for;                                                            *)
(* and when the handling of a transaction with k implicated addresses has  *)
(* returned with every delivery succeeded, exactly k messages have been    *)
(* delivered, one per implicated address.                                  *)
C17_OneMessagePerAddress ==
    LET implicated == findInvolvedWallets(delivery.transaction,
                                          getActiveWalletAddresses(wallets))
    IN /\ \A k \in EventsOf("post") :
             /\ Len(events[k].message.embeds) = 1
             /\ events[k].message.embeds[1].address = truncateAddress(events[k].address)
             /\ Includes(implicated, events[k].address)
       /\ (delivery.pc = "returned" /\ delivery.error = "")
             => /\ Len(AddressesOf("ok")) = Len(implicated)
                /\ AddressesOf("ok") = implicated

(* "A" and "B" are implicated; a message for each has been delivered, the  *)
(* one for "B" at the second attempt.                                      *)
C17_Witness ==
    /\ delivery.pc = "returned"
    /\ delivery.error = ""
    /\ AddressesOf("ok") = <<"A", "B">>
    /\ \E k \in EventsOf("ok") : events[k].address = "B" /\ events[k].attempt = 2

(* The message sendTransactionNotification builds for an address from the  *)
(* whole analysis, every mint resolved from the cache.                     *)
BuiltMessage(address) ==
    [embeds |-> <<createEnhancedTransactionEmbed(
                      delivery.transaction, delivery.timestamp, address,
                      WalletName(wallets, address),
                      analyzeTransaction(delivery.transaction, address, tokenCache)).embed>>]

(* C20: a message is posted for an address only when every mint of the     *)
(* token transfers touching it has been resolved, and it is the message    *)
(* built from the complete analysis; nothing has been posted for the       *)
(* address while its wallet or a mint is still awaited, nothing is posted  *)
(* for a pair whose embed construction fails, and every retry posts the    *)
(* message the first attempt posted.                                       *)
C20_PostOnlyFullyBuilt ==
    /\ \A k \in EventsOf("post") :
          LET address == events[k].address
          IN /\ \A t \in Range(Touching(delivery.transaction, address)) :
                   t.mint \in DOMAIN tokenCache
             /\ events[k].message = BuiltMessage(address)
             /\ \A j \in PostsFor(address) : events[j].message = events[k].message
    /\ delivery.pc \in {"getWallet", "lookup"}
          => PostsFor(delivery.involved[delivery.wIdx]) = {}
    /\ delivery.timestamp = "NaN" => EventsOf("post") = {}
    /\ delivery.error = "embed"
          => PostsFor(delivery.involved[delivery.wIdx]) = {}

(* The message for "A", built after the lookups of "M" and "N", was posted *)
(* three times, the same each time.                                        *)
C20_Witness ==
    /\ DOMAIN tokenCache = {"M", "N"}
    /\ \E k, j \in PostsFor("A") :
          /\ events[k].attempt = 1
          /\ events[j].attempt = 3
          /\ events[k].message = events[j].message
          /\ Len(events[k].message.embeds[1].fields) = 2

-----------------------------------------------------------------------------
(* Properties of truncateAddress, under SpecTruncate.                      *)

(* C14: an address of 12 characters or fewer is returned unchanged; a      *)
(* longer one, 13 characters included, is returned as its first 6          *)
(* characters, "..." and its last 6 characters.                            *)
C14_TruncateAddress ==
    truncation.done =>
        LET address == truncation.address
            display == truncation.display
            n == Len(address)
        IN IF n <= 12 THEN display = address
           ELSE /\ Len(display) = 15
                /\ \A i \in 1..6 : SubSeq(display, i, i) = SubSeq(address, i, i)
                /\ SubSeq(display, 7, 9) = "..."
                /\ \A i \in 1..6 :
                      SubSeq(display, 9 + i, 9 + i) = SubSeq(address, n - 6 + i, n - 6 + i)

(* An address of 13 characters has been truncated.                         *)
C14_Witness ==
    /\ truncation.done
    /\ truncation.address = "aaaaaabbbbbbb"
    /\ truncation.display = "aaaaaa...bbbbbb"

-----------------------------------------------------------------------------
(* Properties of analyzeTransaction, under SpecAnalyze.                    *)

NativeSentBy(tx, walletAddress) ==
    {k \in 1..Len(tx.nativeTransfers) : tx.nativeTransfers[k].fromUserAccount = walletAddress}

NativeReceivedBy(tx, walletAddress) ==
    {k \in 1..Len(tx.nativeTransfers) : tx.nativeTransfers[k].toUserAccount = walletAddress}

(* C15: a token transfer touching the address is a BUY when the address    *)
(* received the token and some native transfer is sent by the address, a   *)
(* SELL when the address sent the token and some native transfer is        *)
(* received by the address, and a TRANSFER when there is no such native    *)
(* transfer; the solAmount of a BUY or SELL is the amount of such a native *)
(* transfer divided by 10^9, 2000000000 giving 2, and the tokenAmount is   *)
(* the raw amount divided by 10^decimals.  Where both the BUY and the SELL *)
(* condition hold, either type is accepted.                                *)
C15_Classification ==
    analysis.done =>
        LET tx == analysis.transaction
            A == analysis.walletAddress
            touching == Touching(tx, A)
            result == analysis.enhancedTransfers
        IN /\ Len(result) >= Len(touching)
           /\ \A j \in 1..Len(touching) :
                 LET t == touching[j]
                     e == result[j]
                     buy == t.toUserAccount = A /\ NativeSentBy(tx, A) # {}
                     sell == t.fromUserAccount = A /\ NativeReceivedBy(tx, A) # {}
                     legs == (IF buy THEN NativeSentBy(tx, A) ELSE {})
                                 \cup (IF sell THEN NativeReceivedBy(tx, A) ELSE {})
                 IN /\ (buy /\ ~sell) => e.type = "BUY"
                    /\ (sell /\ ~buy) => e.type = "SELL"
                    /\ (buy /\ sell) => e.type \in {"BUY", "SELL"}
                    /\ (~buy /\ ~sell) => e.type = "TRANSFER"
                    /\ e.type \in {"BUY", "SELL"}
                          => /\ e.solAmount.defined
                             /\ e.solAmount.e = 9
                             /\ \E k \in legs : e.solAmount.m = tx.nativeTransfers[k].amount
                             /\ e.solAmount.m = 2000000000
                                   => e.solAmount.m = 2 * 10 ^ e.solAmount.e
                    /\ e.tokenAmount.defined
                    /\ e.tokenAmount.m = t.tokenAmount
                    /\ e.tokenAmount.e = analysis.metadata[t.mint].decimals

(* The native transfers analyzeTransaction used as the counterpart of a    *)
(* BUY or SELL.                                                            *)
Counterparts(tx, walletAddress) ==
    {correspondingSOLTransfer(tx.nativeTransfers, walletAddress,
                              t.fromUserAccount = walletAddress,
                              t.toUserAccount = walletAddress) :
        t \in Range(Touching(tx, walletAddress))} \ {0}

(* C16: a native transfer used as the counterpart of a BUY or SELL has no  *)
(* standalone TRANSFER entry in the result: the SOL entries showing its    *)
(* parties and amount are no more than the other native transfers that    *)
(* carry the same parties and amount.                                      *)
C16_CounterpartNotRepeated ==
    analysis.done =>
        LET tx == analysis.transaction
            A == analysis.walletAddress
            result == analysis.enhancedTransfers
            used == Counterparts(tx, A)
        IN \A k \in used :
              LET same == {j \in 1..Len(tx.nativeTransfers) \ used :
                              tx.nativeTransfers[j] = tx.nativeTransfers[k]}
                  shown == {j \in 1..Len(result) :
                              /\ result[j].type = "TRANSFER"
                              /\ result[j].tokenSymbol = "SOL"
                              /\ result[j].fromAddress = tx.nativeTransfers[k].fromUserAccount
                              /\ result[j].toAddress = tx.nativeTransfers[k].toUserAccount
                              /\ result[j].solAmount.m = tx.nativeTransfers[k].amount}
              IN Cardinality(shown) <= Cardinality(same)

HasType(enhancedTransfers, type) ==
    \E k \in 1..Len(enhancedTransfers) : enhancedTransfers[k].type = type

(* C24: the embed's title and color follow the classified transfers: a BUY *)
(* and no SELL gives the purchase title in green, a SELL and no BUY the    *)
(* sale title in red, both the swap title in orange, TRANSFER entries only *)
(* the transfer title in blue, no entry the generic title.                 *)
C24_TitleFollowsClassification ==
    analysis.built =>
        LET result == analysis.enhancedTransfers
            buy == HasType(result, "BUY")
            sell == HasType(result, "SELL")
            shown == <<analysis.embed.title, analysis.embed.color>>
        IN /\ (buy /\ ~sell) => shown = <<"Token Purchase", "0x00ff00">>
           /\ (sell /\ ~buy) => shown = <<"Token Sale", "0xff0000">>
           /\ (buy /\ sell) => shown = <<"Token Swap", "0xffaa00">>
           /\ (~buy /\ ~sell /\ HasType(result, "TRANSFER"))
                 => shown = <<"Transfer", "0x0099ff">>
           /\ result = << >> => analysis.embed.title = "Transaction Detected"

(* A token bought and a token sold in one transaction: the swap title.     *)
C24_Witness ==
    /\ analysis.built
    /\ HasType(analysis.enhancedTransfers, "BUY")
    /\ HasType(analysis.enhancedTransfers, "SELL")
    /\ analysis.embed.title = "Token Swap"
    /\ analysis.embed.color = "0xffaa00"

(* C26: every native transfer that touches the wallet and was not used as  *)
(* the counterpart of a BUY or SELL has its own TRANSFER entry with the    *)
(* symbol SOL, shown as SENT when the wallet is its sender and as RECEIVED *)
(* otherwise: the entries showing its parties and amount are as many as    *)
(* the unused native transfers that carry them.                            *)
C26_EveryNativeTransferShown ==
    analysis.done =>
        LET tx == analysis.transaction
            A == analysis.walletAddress
            result == analysis.enhancedTransfers
            used == Counterparts(tx, A)
            unused == {k \in 1..Len(tx.nativeTransfers) \ used :
                          Involves(tx.nativeTransfers[k], A)}
        IN \A k \in unused :
              LET same == {j \in unused : tx.nativeTransfers[j] = tx.nativeTransfers[k]}
                  shown == {j \in 1..Len(result) :
                              /\ result[j].type = "TRANSFER"
                              /\ result[j].tokenSymbol = "SOL"
                              /\ result[j].fromAddress = tx.nativeTransfers[k].fromUserAccount
                              /\ result[j].toAddress = tx.nativeTransfers[k].toUserAccount
                              /\ result[j].solAmount.m = tx.nativeTransfers[k].amount
                              /\ TransferField(result[j]).actionText
                                    = IF tx.nativeTransfers[k].fromUserAccount = A
                                      THEN "SENT" ELSE "RECEIVED"}
              IN Cardinality(shown) = Cardinality(same)

-----------------------------------------------------------------------------
(* Properties of the shutdown, under SpecShutdown.                         *)

=============================================================================
